---------------------------- MODULE Spec2Model ----------------------------
(***************************************************************************)
(* A model of the ray tracer's intersection core (src/src/aabb.rs,         *)
(* src/src/hitable.rs), its materials (src/src/material.rs), its           *)
(* integrator (src/src/ray.rs), its camera (src/src/camera.rs) and the     *)
(* render harness (src/src/main.rs): the worker threads, the joins and the *)
(* averaging fold.                                                         *)
(*                                                                         *)
(* Numbers.  An f64 is modelled by an exact value: a reduced fraction      *)
(* <<n, d>> with d > 0, or one of the three IEEE specials                  *)
(* <<1, 0>> (+inf), <<-1, 0>> (-inf), <<0, 0>> (NaN).  The inputs are      *)
(* small integers and fractions, for which f64 arithmetic orders values    *)
(* exactly as the fractions are ordered; square roots are taken only of    *)
(* perfect squares (the inputs are drawn so that this is the case).  The   *)
(* sign of a zero is not part of a value: where the code divides by a      *)
(* direction component, the ray carries a flag saying whether its zero     *)
(* components are -0.0.                                                    *)
(***************************************************************************)
EXTENDS Integers, Sequences, FiniteSets, TLC

(***************************************************************************)
(* f64 values                                                              *)
(***************************************************************************)
\* The operations on values are functions: an argument is a value by the
\* time the operation reads it.
F64 == Int \X Int

Abs(n) == IF n < 0 THEN -n ELSE n

Sign(n) == IF n < 0 THEN -1 ELSE IF n > 0 THEN 1 ELSE 0

GCD[a \in Nat, b \in Nat] == IF b = 0 THEN a ELSE GCD[b, a % b]

\* the f64 n/d, reduced; d = 0 gives +inf, -inf or NaN as IEEE division does
f64_of[n \in Int, d \in Int] ==
    IF d = 0 THEN <<Sign(n), 0>>
    ELSE LET g == GCD[Abs(n), Abs(d)]
             s == IF d < 0 THEN -1 ELSE 1
         IN  <<(s * n) \div g, (s * d) \div g>>

Frac(n, d) == f64_of[n, d]

F(n) == <<n, 1>>

PInf == <<1, 0>>
NInf == <<-1, 0>>
NaN == <<0, 0>>

IsNaN(x) == x = NaN
IsInf(x) == x[2] = 0 /\ x[1] # 0
IsFinite(x) == x[2] # 0

f64_neg[x \in F64] == <<-x[1], x[2]>>

FNeg(x) == f64_neg[x]

f64_add[x \in F64, y \in F64] ==
    IF IsNaN(x) \/ IsNaN(y) THEN NaN
    ELSE IF IsInf(x) /\ IsInf(y) THEN (IF x = y THEN x ELSE NaN)
    ELSE IF IsInf(x) THEN x
    ELSE IF IsInf(y) THEN y
    ELSE Frac(x[1] * y[2] + y[1] * x[2], x[2] * y[2])

FAdd(x, y) == f64_add[x, y]

FSub(x, y) == FAdd(x, FNeg(y))

f64_mul[x \in F64, y \in F64] ==
    IF IsNaN(x) \/ IsNaN(y) THEN NaN
    ELSE IF IsInf(x) \/ IsInf(y)
         THEN <<Sign(x[1]) * Sign(y[1]), 0>>
    ELSE Frac(x[1] * y[1], x[2] * y[2])

FMul(x, y) == f64_mul[x, y]

\* x / y with a zero y read as +0.0
f64_div[x \in F64, y \in F64] ==
    IF IsNaN(x) \/ IsNaN(y) THEN NaN
    ELSE IF IsInf(x) THEN (IF IsInf(y) THEN NaN
                           ELSE <<x[1] * (IF y[1] < 0 THEN -1 ELSE 1), 0>>)
    ELSE IF IsInf(y) THEN F(0)
    ELSE Frac(x[1] * y[2], x[2] * y[1])

FDiv(x, y) == f64_div[x, y]

\* x / y where a zero y is -0.0 when negZero holds
f64_div_zero[x \in F64, y \in F64, negZero \in BOOLEAN] ==
    IF y = F(0) /\ negZero THEN FNeg(FDiv(x, y)) ELSE FDiv(x, y)

FDivZ(x, y, negZero) == f64_div_zero[x, y, negZero]

\* the comparisons of f64: every comparison with NaN is false
f64_lt[x \in F64, y \in F64] ==
    /\ ~IsNaN(x)
    /\ ~IsNaN(y)
    /\ IF IsInf(x) \/ IsInf(y)
       THEN (IF IsInf(x) THEN x[1] ELSE 0) < (IF IsInf(y) THEN y[1] ELSE 0)
       ELSE x[1] * y[2] < y[1] * x[2]

FLt(x, y) == f64_lt[x, y]

FGt(x, y) == FLt(y, x)

f64_le[x \in F64, y \in F64] == ~IsNaN(x) /\ ~IsNaN(y) /\ ~FLt(y, x)

FLe(x, y) == f64_le[x, y]

\* f64::min and f64::max: a NaN argument is ignored
f64_min[x \in F64, y \in F64] ==
    IF IsNaN(x) THEN y ELSE IF IsNaN(y) THEN x
    ELSE IF FLt(y, x) THEN y ELSE x

FMin(x, y) == f64_min[x, y]

f64_max[x \in F64, y \in F64] ==
    IF IsNaN(x) THEN y ELSE IF IsNaN(y) THEN x
    ELSE IF FLt(x, y) THEN y ELSE x

FMax(x, y) == f64_max[x, y]

RootFrom[n \in Int, k \in Nat] == IF k * k >= n THEN k ELSE RootFrom[n, k + 1]

\* the least k with k * k >= n
IRoot(n) == RootFrom[n, 0]

IsSquare(n) == n >= 0 /\ IRoot(n) * IRoot(n) = n

\* f64::sqrt, exact on the squares of fractions
HasSqrt(x) == IsFinite(x) /\ IsSquare(x[1]) /\ IsSquare(x[2])

f64_sqrt[x \in F64] ==
    IF IsNaN(x) \/ x[1] < 0 THEN NaN
    ELSE IF IsInf(x) THEN x
    ELSE Frac(IRoot(x[1]), IRoot(x[2]))

FSqrt(x) == f64_sqrt[x]

(***************************************************************************)
(* Vec3 (src/src/vec3.rs)                                                  *)
(***************************************************************************)
Vec3 == F64 \X F64 \X F64

Vec3_with_values(x, y, z) == <<x, y, z>>

\* a vector of integer components
V(x, y, z) == <<F(x), F(y), F(z)>>

Vec3_new == V(0, 0, 0)

Vec3_add[a \in Vec3, b \in Vec3] ==
    <<FAdd(a[1], b[1]), FAdd(a[2], b[2]), FAdd(a[3], b[3])>>

VAdd(a, b) == Vec3_add[a, b]

Vec3_sub[a \in Vec3, b \in Vec3] ==
    <<FSub(a[1], b[1]), FSub(a[2], b[2]), FSub(a[3], b[3])>>

VSub(a, b) == Vec3_sub[a, b]

Vec3_neg[a \in Vec3] == <<FNeg(a[1]), FNeg(a[2]), FNeg(a[3])>>

VNeg(a) == Vec3_neg[a]

\* f64 * Vec3 and Vec3 * f64
Vec3_mul_f64[k \in F64, a \in Vec3] ==
    <<FMul(k, a[1]), FMul(k, a[2]), FMul(k, a[3])>>

VScale(k, a) == Vec3_mul_f64[k, a]

\* Vec3 / f64
Vec3_div_f64[a \in Vec3, k \in F64] ==
    <<FDiv(a[1], k), FDiv(a[2], k), FDiv(a[3], k)>>

VDivS(a, k) == Vec3_div_f64[a, k]

\* Vec3 * Vec3, componentwise
Vec3_mul[a \in Vec3, b \in Vec3] ==
    <<FMul(a[1], b[1]), FMul(a[2], b[2]), FMul(a[3], b[3])>>

VMul(a, b) == Vec3_mul[a, b]

Vec3_dot[a \in Vec3, b \in Vec3] ==
    FAdd(FAdd(FMul(a[1], b[1]), FMul(a[2], b[2])), FMul(a[3], b[3]))

dot(a, b) == Vec3_dot[a, b]

Vec3_squared_len[a \in Vec3] == dot(a, a)

squared_len(a) == Vec3_squared_len[a]

len(a) == FSqrt(squared_len(a))

Vec3_unit_vector[a \in Vec3] == VDivS(a, len(a))

unit_vector(a) == Vec3_unit_vector[a]

(***************************************************************************)
(* Ray (src/src/ray.rs): origin, direction, time tag, debug flag.  negz    *)
(* says that the zero components of the direction are -0.0.                *)
(***************************************************************************)
Ray_with_values(a, b, t, debug, negz) ==
    [orig |-> a, dir |-> b, time |-> t, debug |-> debug, negz |-> negz]

point_at_param(r, t) == VAdd(r.orig, VScale(t, r.dir))

(***************************************************************************)
(* Aabb (src/src/aabb.rs)                                                  *)
(***************************************************************************)
Aabb_new(min, max) == [min |-> min, max |-> max]

Axes == {1, 2, 3}

\* mutant of Aabb_slab: a zero direction component is special-cased and
\* leaves the window as it is
Aabb_slab_zero_skipped(box, r, i, tmin, tmax) ==
    IF r.dir[i] = F(0) THEN <<tmin, tmax>>
    ELSE LET lo == FDiv(FSub(box.min[i], r.orig[i]), r.dir[i])
             hi == FDiv(FSub(box.max[i], r.orig[i]), r.dir[i])
         IN  <<FMax(FMin(lo, hi), tmin), FMin(FMax(lo, hi), tmax)>>

\* Aabb::new(Vec3::new(), Vec3::new()), the box a caller hands to
\* bounding_box to be overwritten
NoBoxYet == Aabb_new(Vec3_new, Vec3_new)

\* one pass of the loop of Aabb::hit, for axis i: the window after the pass
Aabb_slab(box, r, i, tmin, tmax) ==
    LET lo == FDivZ(FSub(box.min[i], r.orig[i]), r.dir[i], r.negz)
        hi == FDivZ(FSub(box.max[i], r.orig[i]), r.dir[i], r.negz)
        t0 == FMin(lo, hi)
        t1 == FMax(lo, hi)
    IN  <<FMax(t0, tmin), FMin(t1, tmax)>>

\* mutant of Aabb_hit_from: the window is given up when tmax < tmin
RECURSIVE Aabb_hit_from_lt(_, _, _, _, _)
Aabb_hit_from_lt(box, r, i, tmin, tmax) ==
    IF i > 3 THEN TRUE
    ELSE LET w == Aabb_slab(box, r, i, tmin, tmax)
         IN  IF FLt(w[2], w[1]) THEN FALSE
             ELSE Aabb_hit_from_lt(box, r, i + 1, w[1], w[2])

\* the loop of Aabb::hit from axis i on, with the window reached so far
RECURSIVE Aabb_hit_from(_, _, _, _, _)
Aabb_hit_from(box, r, i, tmin, tmax) ==
    IF i > 3 THEN TRUE
    ELSE LET w == Aabb_slab(box, r, i, tmin, tmax)
         IN  IF FLe(w[2], w[1]) THEN FALSE
             ELSE Aabb_hit_from(box, r, i + 1, w[1], w[2])

Aabb_hit(box, r, tmin, tmax) == Aabb_hit_from(box, r, 1, tmin, tmax)

\* mutant of surrounding_box: the larger corner takes the smaller maximum
surrounding_box_min_of_maxes(b0, b1) ==
    Aabb_new(Vec3_with_values(FMin(b0.min[1], b1.min[1]),
                              FMin(b0.min[2], b1.min[2]),
                              FMin(b0.min[3], b1.min[3])),
             Vec3_with_values(FMin(b0.max[1], b1.max[1]),
                              FMin(b0.max[2], b1.max[2]),
                              FMin(b0.max[3], b1.max[3])))

surrounding_box(b0, b1) ==
    LET small == Vec3_with_values(FMin(b0.min[1], b1.min[1]),
                                  FMin(b0.min[2], b1.min[2]),
                                  FMin(b0.min[3], b1.min[3]))
        big == Vec3_with_values(FMax(b0.max[1], b1.max[1]),
                                FMax(b0.max[2], b1.max[2]),
                                FMax(b0.max[3], b1.max[3]))
    IN  Aabb_new(small, big)


(***************************************************************************)
(* Materials (src/src/material.rs).  A solid texture is its colour.        *)
(***************************************************************************)
Lambertian_new(albedo) == [kind |-> "Lambertian", albedo |-> albedo]

\* Metal::new stores min(fuzz, 1.0)
Metal_new(albedo, fuzz) ==
    [kind |-> "Metal", albedo |-> albedo,
     fuzz |-> IF FLt(fuzz, F(1)) THEN fuzz ELSE F(1)]

Dielectric_new(ref_index) == [kind |-> "Dielectric", ref_index |-> ref_index]

DiffuseLight_new(emit) == [kind |-> "DiffuseLight", emit |-> emit]

Blank_new == [kind |-> "Blank"]

(***************************************************************************)
(* HitRecord (src/src/hitable.rs).  A texture coordinate is <<F(0), x>>    *)
(* for the f64 x, and <<F(1), p>> or <<F(2), p>> for the u or the v that   *)
(* get_sphere_uv computes, with atan2 and asin, from the unit point p.     *)
(***************************************************************************)
Uv(x) == <<F(0), x, F(0), F(0)>>

HitRecord_new ==
    [u |-> Uv(F(0)), v |-> Uv(F(0)), t |-> F(0), p |-> Vec3_new,
     normal |-> Vec3_new, material |-> Lambertian_new(Vec3_new)]

get_sphere_uv(p) == <<<<F(1), p[1], p[2], p[3]>>, <<F(2), p[1], p[2], p[3]>>>>

(***************************************************************************)
(* Sphere (src/src/hitable.rs)                                             *)
(***************************************************************************)
Sphere_with_values(center, radius, material) ==
    [kind |-> "Sphere", center |-> center, radius |-> radius,
     material |-> material]

\* b * b - a * c of Sphere::hit
Sphere_discriminant(s, r) ==
    LET oc == VSub(r.orig, s.center)
        a == dot(r.dir, r.dir)
        b == dot(oc, r.dir)
        c == FSub(dot(oc, oc), FMul(s.radius, s.radius))
    IN  FSub(FMul(b, b), FMul(a, c))

\* the record Sphere::hit writes for the root temp
Sphere_record(s, r, temp, rec) ==
    LET p == point_at_param(r, temp)
        uv == get_sphere_uv(VDivS(VSub(p, s.center), s.radius))
    IN  [rec EXCEPT !.t = temp, !.p = p, !.u = uv[1], !.v = uv[2],
                    !.normal = VDivS(VSub(p, s.center), s.radius)]

\* mutant of Sphere_hit: the far root is tried first
Sphere_hit_far_first(s, r, tmin, tmax, rec) ==
    LET oc == VSub(r.orig, s.center)
        a == dot(r.dir, r.dir)
        b == dot(oc, r.dir)
        d == Sphere_discriminant(s, r)
        far == FDiv(FAdd(FNeg(b), FSqrt(d)), a)
        near == FDiv(FSub(FNeg(b), FSqrt(d)), a)
    IN  IF FGt(d, F(0)) /\ FLt(far, tmax) /\ FGt(far, tmin)
        THEN [hit |-> TRUE, rec |-> Sphere_record(s, r, far, rec),
              mat |-> s.material]
        ELSE IF FGt(d, F(0)) /\ FLt(near, tmax) /\ FGt(near, tmin)
        THEN [hit |-> TRUE, rec |-> Sphere_record(s, r, near, rec),
              mat |-> s.material]
        ELSE [hit |-> FALSE, rec |-> rec, mat |-> s.material]

\* Sphere::hit: the bool, the record as the call leaves it, the material
Sphere_hit(s, r, tmin, tmax, rec) ==
    LET oc == VSub(r.orig, s.center)
        a == dot(r.dir, r.dir)
        b == dot(oc, r.dir)
        d == Sphere_discriminant(s, r)
        temp1 == FDiv(FSub(FNeg(b), FSqrt(d)), a)
        temp2 == FDiv(FAdd(FNeg(b), FSqrt(d)), a)
    IN  IF FGt(d, F(0)) /\ FLt(temp1, tmax) /\ FGt(temp1, tmin)
        THEN [hit |-> TRUE, rec |-> Sphere_record(s, r, temp1, rec),
              mat |-> s.material]
        ELSE IF FGt(d, F(0)) /\ FLt(temp2, tmax) /\ FGt(temp2, tmin)
        THEN [hit |-> TRUE, rec |-> Sphere_record(s, r, temp2, rec),
              mat |-> s.material]
        ELSE [hit |-> FALSE, rec |-> rec, mat |-> s.material]

Sphere_bounding_box(s) ==
    Aabb_new(VSub(s.center, Vec3_with_values(s.radius, s.radius, s.radius)),
             VAdd(s.center, Vec3_with_values(s.radius, s.radius, s.radius)))

(***************************************************************************)
(* MovingSphere, the rectangles and FlipNormals (src/src/hitable.rs).  A   *)
(* rectangle is kept as its kind, the extent u0 .. u1 and v0 .. v1 of its  *)
(* two in-plane coordinates in the order hit writes rec.u and rec.v, and   *)
(* the plane coordinate k.                                                 *)
(***************************************************************************)
MovingSphere_with_values(centers, time0, time1, radius, material) ==
    [kind |-> "MovingSphere", centers |-> centers, time0 |-> time0,
     time1 |-> time1, radius |-> radius, material |-> material]

MovingSphere_center(self, time) ==
    VAdd(self.centers[1],
         VScale(FDiv(FSub(time, self.time0), FSub(self.time1, self.time0)),
                VSub(self.centers[2], self.centers[1])))

\* the record MovingSphere::hit writes for the root temp, the point p at
\* temp and the centre at the time of the ray: t, p and normal
MovingSphere_record(rec, temp, p, center, radius) ==
    [rec EXCEPT !.t = temp, !.p = p,
                !.normal = VDivS(VSub(p, center), radius)]

\* d and the two values of temp in MovingSphere::hit, for oc and the
\* direction of the ray
MovingSphere_roots(oc, dir, radius) ==
    LET a == dot(dir, dir)
        b == dot(oc, dir)
        c == FSub(dot(oc, oc), FMul(radius, radius))
        d == FSub(FMul(b, b), FMul(a, c))
    IN  <<d, FDiv(FSub(FNeg(b), FSqrt(d)), a),
          FDiv(FAdd(FNeg(b), FSqrt(d)), a)>>

\* the two tests of the roots q in MovingSphere::hit
MovingSphere_pick(s, r, tmin, tmax, rec, center, q) ==
    IF FGt(q[1], F(0)) /\ FLt(q[2], tmax) /\ FGt(q[2], tmin)
    THEN [hit |-> TRUE, mat |-> s.material,
          rec |-> MovingSphere_record(rec, q[2], point_at_param(r, q[2]),
                                      center, s.radius)]
    ELSE IF FGt(q[1], F(0)) /\ FLt(q[3], tmax) /\ FGt(q[3], tmin)
    THEN [hit |-> TRUE, mat |-> s.material,
          rec |-> MovingSphere_record(rec, q[3], point_at_param(r, q[3]),
                                      center, s.radius)]
    ELSE [hit |-> FALSE, rec |-> rec, mat |-> s.material]

\* MovingSphere::hit, for the centre at the time of the ray
MovingSphere_hit_at(s, r, tmin, tmax, rec, center) ==
    MovingSphere_pick(s, r, tmin, tmax, rec, center,
                      MovingSphere_roots(VSub(r.orig, center), r.dir,
                                         s.radius))

\* MovingSphere::hit
MovingSphere_hit(s, r, tmin, tmax, rec) ==
    MovingSphere_hit_at(s, r, tmin, tmax, rec, MovingSphere_center(s, r.time))

RectSliceXy_new(material, x0, x1, y0, y1, k) ==
    [kind |-> "RectSliceXy", material |-> material, u0 |-> x0, u1 |-> x1,
     v0 |-> y0, v1 |-> y1, k |-> k]

RectSliceXz_new(material, x0, x1, z0, z1, k) ==
    [kind |-> "RectSliceXz", material |-> material, u0 |-> x0, u1 |-> x1,
     v0 |-> z0, v1 |-> z1, k |-> k]

RectSliceYz_new(material, y0, y1, z0, z1, k) ==
    [kind |-> "RectSliceYz", material |-> material, u0 |-> y0, u1 |-> y1,
     v0 |-> z0, v1 |-> z1, k |-> k]

\* the axis of k, of rec.u and of rec.v, for each kind of rectangle
RectSlice_axes(kind) ==
    IF kind = "RectSliceXy" THEN <<3, 1, 2>>
    ELSE IF kind = "RectSliceXz" THEN <<2, 1, 3>>
    ELSE <<1, 2, 3>>

\* the normal RectSlice*::hit writes
RectSlice_normal(kind) ==
    IF kind = "RectSliceXy" THEN V(0, 0, 1)
    ELSE IF kind = "RectSliceXz" THEN V(0, 1, 0)
    ELSE V(1, 0, 0)

\* RectSliceXy::hit, RectSliceXz::hit and RectSliceYz::hit
RectSlice_hit(self, r, tmin, tmax, rec) ==
    LET ax == RectSlice_axes(self.kind)
        t == FDivZ(FSub(self.k, r.orig[ax[1]]), r.dir[ax[1]], r.negz)
        x == FAdd(r.orig[ax[2]], FMul(t, r.dir[ax[2]]))
        y == FAdd(r.orig[ax[3]], FMul(t, r.dir[ax[3]]))
    IN  IF FLt(t, tmin) \/ FGt(t, tmax)
        THEN [hit |-> FALSE, rec |-> rec, mat |-> self.material]
        ELSE IF FLt(x, self.u0) \/ FGt(x, self.u1)
                \/ FLt(y, self.v0) \/ FGt(y, self.v1)
        THEN [hit |-> FALSE, rec |-> rec, mat |-> self.material]
        ELSE [hit |-> TRUE,
              rec |-> [rec EXCEPT
                          !.u = Uv(FDiv(FSub(x, self.u0),
                                        FSub(self.u1, self.u0))),
                          !.v = Uv(FDiv(FSub(y, self.v0),
                                        FSub(self.v1, self.v0))),
                          !.t = t,
                          !.p = point_at_param(r, t),
                          !.normal = RectSlice_normal(self.kind)],
              mat |-> self.material]

FlipNormals_new(child) == [kind |-> "FlipNormals", child |-> child]

\* FlipNormals::hit, given what self.child.hit returned
FlipNormals_hit(self, h) ==
    IF h.hit THEN [h EXCEPT !.rec.normal = VNeg(h.rec.normal)] ELSE h

(***************************************************************************)
(* BvhNode (src/src/hitable.rs) and the dispatch of the Hitable trait      *)
(***************************************************************************)
RECURSIVE Hitable_get_material(_)
Hitable_get_material(h) ==
    IF h.kind = "BvhNode" THEN Hitable_get_material(h.left)
    ELSE IF h.kind = "FlipNormals" THEN Hitable_get_material(h.child)
    ELSE h.material

\* bounding_box: whether there is a box, and the box written
Hitable_bounding_box(h, t0, t1) ==
    IF h.kind = "BvhNode" THEN [ok |-> TRUE, box |-> h.bounding_box]
    ELSE [ok |-> TRUE, box |-> Sphere_bounding_box(h)]

\* the closure |b, a| given to sort_unstable_by: -1 (Less), 0 (Equal) or
\* 1 (Greater).  a.bounding_box(..) returns true for every primitive, so
\* the || never evaluates b.bounding_box(..) and right_box stays the zero
\* box: the result is the sign of a's own minimum on the axis.
BvhNode_compare(b, a, axis) ==
    LET left_box == Hitable_bounding_box(a, F(0), F(0))
        right_box == IF left_box.ok THEN NoBoxYet
                     ELSE Hitable_bounding_box(b, F(0), F(0)).box
        diff == FSub(left_box.box.min[axis], right_box.min[axis])
    IN  Sign(diff[1])

\* the orders sort_unstable_by may leave the list in.  The closure is a
\* total order only when it answers Equal for every pair, so the slice's
\* contract promises no more than some permutation of the elements.
sort_unstable_by(nodes, axis) ==
    {[i \in 1 .. Len(nodes) |-> nodes[f[i]]] :
        f \in {g \in [1 .. Len(nodes) -> 1 .. Len(nodes)] :
                  \A i, j \in 1 .. Len(nodes) : g[i] = g[j] => i = j}}

BvhNode_with(left, right, box) ==
    [kind |-> "BvhNode", left |-> left, right |-> right, bounding_box |-> box]

\* BvhNode::new: the trees it may build, over the random axis of every
\* level and the order each sort leaves.  split_off(len / 2) hands the tail
\* to the left subtree and leaves the head for the right one.  On an empty
\* list the last branch calls itself with the same empty list for ever and
\* no tree is built.
RECURSIVE BvhNode_new(_, _, _)

\* mutant of BvhNode_new_from: the split hands the left subtree the tail
\* from one element too far, and the element at the midpoint is lost
BvhNode_new_from_dropping(sorted, t0, t1) ==
    IF Len(sorted) = 1
    THEN {BvhNode_with(sorted[1], sorted[1],
                       Hitable_bounding_box(sorted[1], t0, t1).box)}
    ELSE IF Len(sorted) = 2
    THEN {BvhNode_with(sorted[1], sorted[2],
              surrounding_box(
                  Hitable_bounding_box(sorted[1], t0, t1).box,
                  Hitable_bounding_box(sorted[2], t0, t1).box))}
    ELSE LET at == Len(sorted) \div 2
         IN  {BvhNode_with(left, right,
                  surrounding_box(
                      Hitable_bounding_box(left, t0, t1).box,
                      Hitable_bounding_box(right, t0, t1).box)) :
                  left \in BvhNode_new(
                               SubSeq(sorted, at + 2, Len(sorted)),
                               t0, t1),
                  right \in BvhNode_new(SubSeq(sorted, 1, at), t0, t1)}

\* mutant of BvhNode_new_from: a node of two keeps the box of its left
\* child only
BvhNode_new_from_left_box(sorted, t0, t1) ==
    IF Len(sorted) = 1
    THEN {BvhNode_with(sorted[1], sorted[1],
                       Hitable_bounding_box(sorted[1], t0, t1).box)}
    ELSE IF Len(sorted) = 2
    THEN {BvhNode_with(sorted[1], sorted[2],
                       Hitable_bounding_box(sorted[1], t0, t1).box)}
    ELSE LET at == Len(sorted) \div 2
         IN  {BvhNode_with(left, right,
                  surrounding_box(
                      Hitable_bounding_box(left, t0, t1).box,
                      Hitable_bounding_box(right, t0, t1).box)) :
                  left \in BvhNode_new(
                               SubSeq(sorted, at + 1, Len(sorted)),
                               t0, t1),
                  right \in BvhNode_new(SubSeq(sorted, 1, at), t0, t1)}

\* the branches of BvhNode::new on nodes.len(), the list being sorted
BvhNode_new_from(sorted, t0, t1) ==
    IF Len(sorted) = 1
    THEN {BvhNode_with(sorted[1], sorted[1],
                       Hitable_bounding_box(sorted[1], t0, t1).box)}
    ELSE IF Len(sorted) = 2
    THEN {BvhNode_with(sorted[1], sorted[2],
              surrounding_box(
                  Hitable_bounding_box(sorted[1], t0, t1).box,
                  Hitable_bounding_box(sorted[2], t0, t1).box))}
    ELSE LET at == Len(sorted) \div 2
         IN  {BvhNode_with(left, right,
                  surrounding_box(
                      Hitable_bounding_box(left, t0, t1).box,
                      Hitable_bounding_box(right, t0, t1).box)) :
                  left \in BvhNode_new(
                               SubSeq(sorted, at + 1, Len(sorted)),
                               t0, t1),
                  right \in BvhNode_new(SubSeq(sorted, 1, at), t0, t1)}

BvhNode_new(nodes, t0, t1) ==
    IF Len(nodes) = 0 THEN {}
    ELSE UNION {BvhNode_new_from(sorted, t0, t1) :
            sorted \in UNION {sort_unstable_by(nodes, axis) : axis \in Axes}}

\* mutant of BvhNode_pick: rec_left.t <= rec_right.t
BvhNode_pick_le(node, L, R, rec) ==
    IF L.hit /\ R.hit
    THEN IF FLe(L.rec.t, R.rec.t)
         THEN [hit |-> TRUE, rec |-> L.rec,
               mat |-> Hitable_get_material(node.left)]
         ELSE [hit |-> TRUE, rec |-> R.rec,
               mat |-> Hitable_get_material(node.right)]
    ELSE IF L.hit
    THEN [hit |-> TRUE, rec |-> L.rec,
          mat |-> Hitable_get_material(node.left)]
    ELSE IF R.hit
    THEN [hit |-> TRUE, rec |-> R.rec,
          mat |-> Hitable_get_material(node.right)]
    ELSE [hit |-> FALSE, rec |-> rec,
          mat |-> Hitable_get_material(node.left)]

\* what BvhNode::hit returns once both children have answered
BvhNode_pick(node, L, R, rec) ==
    IF L.hit /\ R.hit
    THEN IF FLt(L.rec.t, R.rec.t)
         THEN [hit |-> TRUE, rec |-> L.rec,
               mat |-> Hitable_get_material(node.left)]
         ELSE [hit |-> TRUE, rec |-> R.rec,
               mat |-> Hitable_get_material(node.right)]
    ELSE IF L.hit
    THEN [hit |-> TRUE, rec |-> L.rec,
          mat |-> Hitable_get_material(node.left)]
    ELSE IF R.hit
    THEN [hit |-> TRUE, rec |-> R.rec,
          mat |-> Hitable_get_material(node.right)]
    ELSE [hit |-> FALSE, rec |-> rec,
          mat |-> Hitable_get_material(node.left)]

RECURSIVE Hitable_hit(_, _, _, _, _)
Hitable_hit(h, r, tmin, tmax, rec) ==
    IF h.kind = "BvhNode"
    THEN \* BvhNode::hit
         IF Aabb_hit(h.bounding_box, r, tmin, tmax)
         THEN BvhNode_pick(h,
                  Hitable_hit(h.left, r, tmin, tmax, HitRecord_new),
                  Hitable_hit(h.right, r, tmin, tmax, HitRecord_new),
                  rec)
         ELSE [hit |-> FALSE, rec |-> rec,
               mat |-> Hitable_get_material(h.left)]
    ELSE IF h.kind = "FlipNormals"
    THEN FlipNormals_hit(h, Hitable_hit(h.child, r, tmin, tmax, rec))
    ELSE IF h.kind = "MovingSphere" THEN MovingSphere_hit(h, r, tmin, tmax, rec)
    ELSE IF h.kind = "Sphere" THEN Sphere_hit(h, r, tmin, tmax, rec)
    ELSE RectSlice_hit(h, r, tmin, tmax, rec)

(***************************************************************************)
(* HitableList (src/src/hitable.rs).  The locals of HitableList::hit are   *)
(* a record: hit_anything, closest_so_far, record, material_ptr, and rec,  *)
(* the caller's HitRecord.                                                 *)
(***************************************************************************)
\* the locals before the loop; self.list[0] needs a first child
HitableList_hit_locals(list, tmax, rec) ==
    [hit_anything |-> FALSE, closest_so_far |-> tmax,
     record |-> HitRecord_new,
     material_ptr |-> Hitable_get_material(list[1]), rec |-> rec]

\* mutant of HitableList_hit_iter: every child is given the caller's t_max
HitableList_hit_iter_full_window(st, child, r, tmin, tmax) ==
    LET h == Hitable_hit(child, r, tmin, tmax, st.record)
    IN  IF h.hit
        THEN [hit_anything |-> TRUE, closest_so_far |-> h.rec.t,
              record |-> h.rec, material_ptr |-> Hitable_get_material(child),
              rec |-> h.rec]
        ELSE [st EXCEPT !.record = h.rec]

\* one pass of the loop of HitableList::hit, for the child i
HitableList_hit_iter(st, child, r, tmin, tmax) ==
    LET h == Hitable_hit(child, r, tmin, st.closest_so_far, st.record)
    IN  IF h.hit
        THEN [hit_anything |-> TRUE, closest_so_far |-> h.rec.t,
              record |-> h.rec, material_ptr |-> Hitable_get_material(child),
              rec |-> h.rec]
        ELSE [st EXCEPT !.record = h.rec]

RECURSIVE HitableList_hit_loop(_, _, _, _, _, _)
HitableList_hit_loop(list, i, st, r, tmin, tmax) ==
    IF i > Len(list) THEN st
    ELSE HitableList_hit_loop(list, i + 1,
             HitableList_hit_iter(st, list[i], r, tmin, tmax), r, tmin, tmax)

\* what HitableList::hit returns from its locals
HitableList_hit_result(st) ==
    [hit |-> st.hit_anything, rec |-> st.rec, mat |-> st.material_ptr]

\* HitableList::hit on a list with a first child
HitableList_hit(list, r, tmin, tmax, rec) ==
    HitableList_hit_result(
        HitableList_hit_loop(list, 1, HitableList_hit_locals(list, tmax, rec),
                             r, tmin, tmax))

(***************************************************************************)
(* Scattering (src/src/material.rs).  A scatter call returns the bool, the *)
(* attenuation and the scattered ray as the call leaves them, and, for the *)
(* Dielectric, the branch its last if took.  rnd is the vector that        *)
(* Ray::random_in_sphere returned and rng the f64 that rng.gen() returned. *)
(***************************************************************************)
\* Ray::update copies the origin and the direction only
Ray_update(self, rhs) ==
    [self EXCEPT !.orig = rhs.orig, !.dir = rhs.dir, !.negz = rhs.negz]

\* Ray::new(debug)
Ray_new(debug) == Ray_with_values(Vec3_new, Vec3_new, F(0), debug, FALSE)

material_reflect[v \in Vec3, n \in Vec3] ==
    VSub(v, VScale(FMul(F(2), dot(v, n)), n))

reflect(v, n) == material_reflect[v, n]

\* 1.0 - ni_over_nt * ni_over_nt * (1.0 - dt * dt) of refract
refract_discriminant(v, n, ni_over_nt) ==
    LET dt == dot(unit_vector(v), n)
    IN  FSub(F(1), FMul(FMul(ni_over_nt, ni_over_nt),
                        FSub(F(1), FMul(dt, dt))))

\* refract: the bool and the vector left in refracted
refract(v, n, ni_over_nt, refracted) ==
    LET uv == unit_vector(v)
        dt == dot(uv, n)
        discriminant == refract_discriminant(v, n, ni_over_nt)
    IN  IF FGt(discriminant, F(0))
        THEN [ok |-> TRUE,
              refracted |-> VSub(VScale(ni_over_nt, VSub(uv, VScale(dt, n))),
                                 VScale(FSqrt(discriminant), n))]
        ELSE [ok |-> FALSE, refracted |-> refracted]

\* x.powi(5)
Powi5(x) == FMul(FMul(FMul(x, x), FMul(x, x)), x)

schlick(cos, ref_index) ==
    LET r == FDiv(FSub(F(1), ref_index), FAdd(F(1), ref_index))
        r0 == FMul(r, r)
    IN  FAdd(r0, FMul(FSub(F(1), r0), Powi5(FSub(F(1), cos))))

Lambertian_scatter(m, ray_in, rec, attenuation, scattered, rnd) ==
    LET target == VAdd(VAdd(rec.p, rec.normal), rnd)
    IN  [ok |-> TRUE,
         attenuation |-> m.albedo,
         scattered |-> Ray_update(scattered,
                           Ray_with_values(rec.p, VSub(target, rec.p), F(0),
                                           ray_in.debug, ray_in.negz)),
         branch |-> "scatter"]

Metal_scatter(m, ray_in, rec, attenuation, scattered, rnd) ==
    LET reflected == reflect(unit_vector(ray_in.dir), rec.normal)
        out_ray == Ray_update(scattered,
                       Ray_with_values(rec.p,
                                       VAdd(reflected, VScale(m.fuzz, rnd)),
                                       ray_in.time, ray_in.debug,
                                       ray_in.negz))
    IN  [ok |-> FGt(dot(out_ray.dir, rec.normal), F(0)),
         attenuation |-> m.albedo,
         scattered |-> out_ray,
         branch |-> "scatter"]

Dielectric_scatter(m, ray_in, rec, attenuation, scattered, rng) ==
    LET d == ray_in.dir
        n == rec.normal
        front == FGt(dot(d, n), F(0))
        outward_normal == IF front THEN VNeg(n) ELSE n
        ni_over_nt == IF front THEN m.ref_index ELSE FDiv(F(1), m.ref_index)
        cos == IF front
               THEN FDiv(FMul(m.ref_index, dot(d, n)), len(d))
               ELSE FDiv(FNeg(dot(d, n)), len(d))
        reflected == reflect(d, n)
        rf == refract(d, outward_normal, ni_over_nt, Vec3_new)
        reflect_prob == IF rf.ok THEN schlick(cos, m.ref_index) ELSE F(1)
        taken == IF FLt(rng, reflect_prob) THEN "reflect" ELSE "refract"
        new_dir == IF taken = "reflect" THEN reflected ELSE rf.refracted
    IN  [ok |-> TRUE,
         attenuation |-> V(1, 1, 1),
         scattered |-> Ray_update(scattered,
                           Ray_with_values(rec.p, new_dir, F(0),
                                           ray_in.debug, ray_in.negz)),
         branch |-> taken]

\* Material::scatter, by the kind of the material
Material_scatter(m, ray_in, rec, attenuation, scattered, rnd, rng) ==
    CASE m.kind = "Lambertian" ->
             Lambertian_scatter(m, ray_in, rec, attenuation, scattered, rnd)
      [] m.kind = "Metal" ->
             Metal_scatter(m, ray_in, rec, attenuation, scattered, rnd)
      [] m.kind = "Dielectric" ->
             Dielectric_scatter(m, ray_in, rec, attenuation, scattered, rng)
      [] OTHER ->
             [ok |-> FALSE, attenuation |-> attenuation,
              scattered |-> scattered, branch |-> "none"]

\* Material::emitted: black, but for the DiffuseLight
Material_emitted(m, u, v, p) ==
    IF m.kind = "DiffuseLight" THEN m.emit ELSE V(0, 0, 0)

(***************************************************************************)
(* Ray::color (src/src/ray.rs).  One call is one step; a call that follows *)
(* a scatter leaves a frame with what it still needs after the inner call  *)
(* returns: emitted and attenuation.                                       *)
(***************************************************************************)
\* t_min of Ray::color, and a stand-in for its t_max, std::f64::MAX: a
\* finite value above every parameter of the model
T_MIN == Frac(1, 1000)

F64_MAX == F(100000)

\* the deepest call that still follows a scatter is at depth 49
MAX_DEPTH == 50

\* mutant of Ray_color_recurses: a scatter is still followed at depth 50
Ray_color_recurses_le(d, scatters) == d <= MAX_DEPTH /\ scatters

\* depth < 50 && material.scatter(..)
Ray_color_recurses(d, scatters) == d < MAX_DEPTH /\ scatters

\* what a call of Ray::color finds once world.hit has returned h: the
\* hit, emitted, and the scatter
Ray_color_after_hit(self, h, rnd, rng) ==
    [hit |-> h.hit,
     emitted |-> Material_emitted(h.mat, h.rec.u, h.rec.v, h.rec.p),
     scatter |-> Material_scatter(h.mat, self, h.rec, Vec3_new,
                                  Ray_new(self.debug), rnd, rng)]

\* mutant of Ray_color_result: the attenuation is left out
Ray_color_result_unattenuated(emitted, attenuation, color) ==
    VAdd(emitted, color)

\* emitted + (attenuation * color)
Ray_color_result(emitted, attenuation, color) ==
    VAdd(emitted, VMul(attenuation, color))

\* the colour of a ray that hits nothing
Ray_color_background(self) == IF self.debug THEN V(1, 1, 1) ELSE Vec3_new

(***************************************************************************)
(* The fold of main (src/src/main.rs).  An image maps its pixel positions  *)
(* to (u8, u8, u8); the closure adds two channels as u16, halves the sum   *)
(* and narrows it to u8.                                                   *)
(***************************************************************************)
\* x as u16 + y as u16, / 2, as u8
fold_channel(x, y) == (((x + y) % 65536) \div 2) % 256

\* mutant of fold_pixel: a saturating sum, which no order can change
fold_pixel_saturating(x, y) ==
    <<IF x[1] + y[1] > 255 THEN 255 ELSE x[1] + y[1],
      IF x[2] + y[2] > 255 THEN 255 ELSE x[2] + y[2],
      IF x[3] + y[3] > 255 THEN 255 ELSE x[3] + y[3]>>

fold_pixel(x, y) ==
    <<fold_channel(x[1], y[1]), fold_channel(x[2], y[2]),
      fold_channel(x[3], y[3])>>

\* the closure of the fold: acc and the next partial image x
fold_closure(acc, x) == [p \in DOMAIN x |-> fold_pixel(x[p], acc[p])]

RECURSIVE fold_from(_, _, _)
fold_from(acc, images, k) ==
    IF k > Len(images) THEN acc
    ELSE fold_from(fold_closure(acc, images[k]), images, k + 1)

(***************************************************************************)
(* Camera (src/src/camera.rs).  The tangent of half the field of view is   *)
(* tabulated for the angles the model uses: tan(0) = 0 and tan(45 degrees) *)
(* = 1 (the f64 result is one unit in the last place below 1; it cancels   *)
(* out of the centre of the image plane either way).                       *)
(***************************************************************************)
\* self[1] * rhs.z() - self[2] * rhs.y(), ...
Vec3_cross[a \in Vec3, b \in Vec3] ==
    <<FSub(FMul(a[2], b[3]), FMul(a[3], b[2])),
      FNeg(FSub(FMul(a[1], b[3]), FMul(a[3], b[1]))),
      FSub(FMul(a[1], b[2]), FMul(a[2], b[1]))>>

cross(a, b) == Vec3_cross[a, b]

\* Vec3 + f64: the scalar is added to every component
Vec3_add_f64[a \in Vec3, k \in F64] ==
    <<FAdd(a[1], k), FAdd(a[2], k), FAdd(a[3], k)>>

VAddS(a, k) == Vec3_add_f64[a, k]

\* (vfov * PI / 180.0 / 2.0).tan()
Camera_half_height[vfov \in {F(0), F(90)}] ==
    IF vfov = F(90) THEN F(1) ELSE F(0)

Camera_with(origin, llc, horizontal, vertical, uvw, lens_radius, t0, t1) ==
    [origin |-> origin, llc |-> llc, horizontal |-> horizontal,
     vertical |-> vertical, uvw |-> uvw, lens_radius |-> lens_radius,
     t0 |-> t0, t1 |-> t1]

\* the 2.0 of horizontal and vertical left out
Camera_new_half_span(lookfrom, lookat, vup, vfov, aspect, aperture, focus_dist, t0, t1) ==
    LET half_height == Camera_half_height[vfov]
        half_width == FMul(aspect, half_height)
        w == unit_vector(VSub(lookfrom, lookat))
        u == unit_vector(cross(vup, w))
        v == cross(w, u)
    IN  Camera_with(
            lookfrom,
            VSub(VSub(VSub(lookfrom, VScale(FMul(half_width, focus_dist), u)),
                      VScale(FMul(half_height, focus_dist), v)),
                 VScale(focus_dist, w)),
            VScale(FMul(half_width, focus_dist), u),
            VScale(FMul(half_height, focus_dist), v),
            <<u, v, w>>,
            FDiv(aperture, F(2)), t0, t1)

Camera_new(lookfrom, lookat, vup, vfov, aspect, aperture, focus_dist, t0, t1) ==
    LET half_height == Camera_half_height[vfov]
        half_width == FMul(aspect, half_height)
        w == unit_vector(VSub(lookfrom, lookat))
        u == unit_vector(cross(vup, w))
        v == cross(w, u)
    IN  Camera_with(
            lookfrom,
            VSub(VSub(VSub(lookfrom, VScale(FMul(half_width, focus_dist), u)),
                      VScale(FMul(half_height, focus_dist), v)),
                 VScale(focus_dist, w)),
            VScale(FMul(FMul(F(2), half_width), focus_dist), u),
            VScale(FMul(FMul(F(2), half_height), focus_dist), v),
            <<u, v, w>>,
            FDiv(aperture, F(2)), t0, t1)

\* p is the Vec3 Ray::random_in_unit_disk returned and rnd the f64 that
\* rng.gen() returned.  The parameters u and v shadow the basis vectors of
\* the same names: offset is an f64, added to every component of the origin.
Camera_get_ray(self, u, v, p, rnd) ==
    LET rd == VScale(self.lens_radius, p)
        offset == FAdd(FMul(u, rd[1]), FMul(v, rd[2]))
        time == FAdd(self.t0, FMul(rnd, FSub(self.t1, self.t0)))
    IN  Ray_with_values(
            VAddS(self.origin, offset),
            VSub(VAdd(VAdd(self.llc, VScale(u, self.horizontal)),
                      VScale(v, self.vertical)),
                 self.origin),
            time, FALSE, FALSE)

(***************************************************************************)
(* HitableList::bounding_box (src/src/hitable.rs).  A child is a           *)
(* primitive, whose bounding_box returns true, or a HitableList.  A call   *)
(* returns the bool and the caller's box as the call leaves it.            *)
(***************************************************************************)
HitableList_with(list) == [kind |-> "HitableList", list |-> list]

\* if !self.list[0].bounding_box(t0, t1, &mut temp_box) { replace } else
\* { return false }: whether the call goes on to the loop, and the
\* caller's box.  first is what the first child's bounding_box returned.
HitableList_bounding_box_first(first, bounding_box) ==
    IF ~first.ok THEN [ok |-> TRUE, box |-> first.box]
    ELSE [ok |-> FALSE, box |-> bounding_box]

RECURSIVE HitableList_bounding_box(_, _, _, _)
RECURSIVE HitableList_bounding_box_loop(_, _, _, _, _, _)

\* object.bounding_box(t0, t1, &mut temp_box) by the kind of the child
Child_bounding_box(h, t0, t1, temp_box) ==
    IF h.kind = "HitableList"
    THEN HitableList_bounding_box(h.list, t0, t1, temp_box)
    ELSE Hitable_bounding_box(h, t0, t1)

\* the loop over self.list from the child i on
HitableList_bounding_box_loop(list, i, t0, t1, bounding_box, temp_box) ==
    IF i > Len(list) THEN [ok |-> TRUE, box |-> bounding_box]
    ELSE LET b == Child_bounding_box(list[i], t0, t1, temp_box)
         IN  IF b.ok
             THEN HitableList_bounding_box_loop(list, i + 1, t0, t1,
                      surrounding_box(bounding_box, b.box), b.box)
             ELSE [ok |-> FALSE, box |-> bounding_box]

HitableList_bounding_box(list, t0, t1, bounding_box) ==
    IF Len(list) < 1 THEN [ok |-> FALSE, box |-> bounding_box]
    ELSE LET first == HitableList_bounding_box_first(
                          Child_bounding_box(list[1], t0, t1, NoBoxYet),
                          bounding_box)
         IN  IF first.ok
             THEN HitableList_bounding_box_loop(list, 1, t0, t1, first.box,
                                                first.box)
             ELSE first

(***************************************************************************)
(* State.  pc is the step a scenario has reached; the other variables are  *)
(* the arguments, the local variables and the results of the operation     *)
(* under way.                                                              *)
(***************************************************************************)
VARIABLES
    pc,         \* the step reached
    ray,        \* r: &Ray
    t_min,      \* the window of the intersection test
    t_max,
    box0,       \* aabb.rs: self of Aabb::hit, box0 of surrounding_box
    box1,       \* box1 of surrounding_box
    out_box,    \* the Aabb a call returned
    out_hit,    \* the bool Aabb::hit returned
    world,      \* the list of a HitableList, the nodes given to BvhNode::new
    idx,        \* the child the loop of HitableList::hit is at
    locals,     \* the locals of HitableList::hit
    out,        \* what a hit call returned: the bool, the record, the material
    bvh,        \* the BvhNode built from world
    bvh_out,    \* what BvhNode::hit returned
    depth,      \* depth of the call of Ray::color under way
    tests,      \* the calls of world.hit made so far by Ray::color
    frames,     \* the calls of Ray::color waiting for an inner call
    col,        \* the Vec3 the last call of Ray::color returned
    mat,        \* self of Material::scatter
    hit_record, \* hit_record of Material::scatter
    rng,        \* the f64 drawn by rng.gen()
    scattered,  \* what Material::scatter returned
    results,    \* main: the partial images received from the workers
    acc,        \* main: the accumulator of the fold
    fold_at,    \* main: the partial images folded so far
    image,      \* main: the image saved
    camera,     \* self of Camera::get_ray
    lens,       \* the Vec3 Ray::random_in_unit_disk returned
    st,         \* the arguments u, v of Camera::get_ray
    threads,    \* main: what has become of each worker thread
    chan,       \* main: the results sent and not yet received
    joined,     \* main: the join handles drained so far
    axis,       \* BvhNode::new: the axis drawn
    nodes,      \* BvhNode::new: the list after the sort step
    calls,      \* BvhNode::new: the calls under way, one inside the other
    fuzz,       \* the fuzz given to Metal::new
    pixel       \* main: the pixel a worker is at and the two f64 it drew

commonVars == <<pc, ray, t_min, t_max>>

aabbVars == <<box0, box1, out_box, out_hit>>

hitVars == <<world, idx, locals, out, bvh, bvh_out>>

colorVars == <<depth, tests, frames, col>>

scatterVars == <<mat, hit_record, rng, scattered>>

foldVars == <<results, acc, fold_at, image>>

cameraVars == <<camera, lens, st>>

mainVars == <<threads, chan, joined>>

buildVars == <<axis, nodes, calls>>

partVars == <<fuzz, pixel>>

extVars == <<cameraVars, mainVars, buildVars, partVars>>

restVars == <<colorVars, scatterVars, foldVars, extVars>>

vars == <<commonVars, aabbVars, hitVars, restVars>>

None == [kind |-> "none"]

NoRay == Ray_with_values(Vec3_new, Vec3_new, F(0), FALSE, FALSE)

AabbIdle ==
    box0 = NoBoxYet /\ box1 = NoBoxYet /\ out_box = None /\ out_hit = None

HitIdle ==
    /\ world = <<>>
    /\ idx = 0
    /\ locals = None
    /\ out = None
    /\ bvh = None
    /\ bvh_out = None

\* col before a call of Ray::color has returned: no Vec3
NoColor == <<>>

ColorIdle == depth = 0 /\ tests = 0 /\ frames = <<>> /\ col = NoColor

ScatterIdle ==
    mat = None /\ hit_record = None /\ rng = F(0) /\ scattered = None

FoldIdle == results = <<>> /\ acc = None /\ fold_at = 0 /\ image = None

CameraIdle == camera = None /\ lens = None /\ st = None

MainIdle == threads = <<>> /\ chan = <<>> /\ joined = 0

BuildIdle == axis = 0 /\ nodes = <<>> /\ calls = 0

PartIdle == fuzz = F(0) /\ pixel = None

ExtIdle == CameraIdle /\ MainIdle /\ BuildIdle /\ PartIdle

RestIdle == ColorIdle /\ ScatterIdle /\ FoldIdle /\ ExtIdle

(***************************************************************************)
(* SpecAabb: surrounding_box and Aabb::hit applied to bounded inputs.      *)
(***************************************************************************)
\* box corners have coordinates 0..MaxCoord
MaxCoord == 2

Coords == 0 .. MaxCoord

\* every box, well-formed or not, with corners on the lattice
LatticeBoxes ==
    {Aabb_new(V(a[1], a[2], a[3]), V(b[1], b[2], b[3])) :
        a \in Coords \X Coords \X Coords, b \in Coords \X Coords \X Coords}

\* the cubes [a, b]^3
Cubes ==
    {Aabb_new(V(a, a, a), V(b, b, b)) : a \in Coords, b \in Coords}

\* per axis: a proper slab, a flat one, an inverted one
SlabKinds == {<<0, MaxCoord>>, <<1, 1>>, <<MaxCoord, 0>>}

SlabBoxes ==
    {Aabb_new(V(x[1], y[1], z[1]), V(x[2], y[2], z[2])) :
        x \in SlabKinds, y \in SlabKinds, z \in SlabKinds}

\* ray origins around and inside the boxes; directions with components
\* -1, 0, 1, not all zero
AabbOrigins ==
    {V(p[1], p[2], p[3]) :
        p \in (-1 .. MaxCoord) \X (-1 .. MaxCoord) \X (-1 .. MaxCoord)}

AabbDirs ==
    {V(d[1], d[2], d[3]) : d \in {e \in {-1, 0, 1} \X {-1, 0, 1} \X {-1, 0, 1} :
                                      e # <<0, 0, 0>>}}

AabbWindows == {<<F(0), F(2 * MaxCoord + 4)>>, <<F(1), F(2)>>}

InitAabb ==
    /\ pc \in {"surrounding_box", "Aabb_hit"}
    /\ out_box = None
    /\ out_hit = None
    /\ HitIdle
    /\ RestIdle
    /\ IF pc = "surrounding_box"
       THEN /\ box0 \in LatticeBoxes
            /\ box1 \in Cubes
            /\ ray = NoRay
            /\ t_min = F(0)
            /\ t_max = F(0)
       ELSE /\ box0 \in SlabBoxes
            /\ box1 = NoBoxYet
            /\ \E o \in AabbOrigins, d \in AabbDirs, nz \in BOOLEAN :
                   ray = Ray_with_values(o, d, F(0), FALSE, nz)
            /\ \E w \in AabbWindows : t_min = w[1] /\ t_max = w[2]

CallSurroundingBox ==
    /\ pc = "surrounding_box"
    /\ out_box' = surrounding_box(box0, box1)
    /\ pc' = "surrounding_box_ret"
    /\ UNCHANGED restVars
    /\ UNCHANGED <<ray, t_min, t_max, box0, box1, out_hit, hitVars>>

CallAabbHit ==
    /\ pc = "Aabb_hit"
    /\ out_hit' = Aabb_hit(box0, ray, t_min, t_max)
    /\ pc' = "Aabb_hit_ret"
    /\ UNCHANGED restVars
    /\ UNCHANGED <<ray, t_min, t_max, box0, box1, out_box, hitVars>>

NextAabb == CallSurroundingBox \/ CallAabbHit

SpecAabb == InitAabb /\ [][NextAabb]_vars

(***************************************************************************)
(* SpecSphere: Sphere::hit applied to bounded spheres, rays and windows.   *)
(* A ray is taken with a sphere only when the discriminant is not          *)
(* positive or has an exact square root.                                   *)
(***************************************************************************)
Grey == Vec3_with_values(Frac(1, 2), Frac(1, 2), Frac(1, 2))

MatA == Lambertian_new(Grey)

MatB == Metal_new(Grey, F(0))

SphereCentres == {V(0, 0, 0), V(0, 0, 3), V(1, 2, 0)}

SphereRadii == {F(1), F(2), F(5)}

SphereOrigins ==
    {V(x, y, z) : x \in {0, 3, 4}, y \in {0, 1}, z \in {-5, 0, 2}}

SphereDirs ==
    {V(0, 0, 1), V(0, 0, 2), V(0, 0, -1), V(1, 0, 0), V(0, 3, 4), V(3, 0, 4),
     V(-3, 0, 4), V(1, 2, 2)}

SphereWindows ==
    {<<T_MIN, F64_MAX>>, <<F(0), F(4)>>, <<F(1), F(10)>>, <<F(5), F(7)>>}

\* the square root Sphere::hit takes is exact
ExactFor(s, r) ==
    LET d == Sphere_discriminant(s, r)
    IN  ~FGt(d, F(0)) \/ (HasSqrt(d) /\ r.dir # Vec3_new)

InitSphere ==
    /\ pc = "Sphere_hit"
    /\ AabbIdle
    /\ RestIdle
    /\ \E c \in SphereCentres, rad \in SphereRadii :
           world = <<Sphere_with_values(c, rad, MatA)>>
    /\ \E o \in SphereOrigins, d \in SphereDirs :
           ray = Ray_with_values(o, d, F(0), FALSE, FALSE)
    /\ ExactFor(world[1], ray)
    /\ \E w \in SphereWindows : t_min = w[1] /\ t_max = w[2]
    /\ idx = 0
    /\ locals = None
    /\ out = None
    /\ bvh = None
    /\ bvh_out = None

CallSphereHit ==
    /\ pc = "Sphere_hit"
    /\ out' = Sphere_hit(world[1], ray, t_min, t_max, HitRecord_new)
    /\ pc' = "Sphere_hit_ret"
    /\ UNCHANGED restVars
    /\ UNCHANGED <<ray, t_min, t_max, aabbVars, world, idx, locals, bvh,
                   bvh_out>>

NextSphere == CallSphereHit

SpecSphere == InitSphere /\ [][NextSphere]_vars

(***************************************************************************)
(* SpecHit: HitableList::hit, pass by pass, then BvhNode::new and          *)
(* BvhNode::hit on the same primitives, ray and window.                    *)
(***************************************************************************)
\* the longest list of primitives
MaxPrims == 3

\* spheres along the z axis: two that touch at (0,0,-1), two of the same
\* shape with different materials, two of different shapes with the same
\* material
HitPrims ==
    {Sphere_with_values(V(0, 0, 0), F(1), MatA),
     Sphere_with_values(V(0, 0, 0), F(1), MatB),
     Sphere_with_values(V(0, 0, -3), F(2), MatB),
     Sphere_with_values(V(0, 0, 4), F(1), MatA)}

\* along the axis from outside, from the touching point's side, from
\* behind, from inside a sphere, across the axis, and past every sphere
HitRays ==
    {Ray_with_values(od[1], od[2], F(0), FALSE, nz) :
        od \in {<<V(0, 0, -7), V(0, 0, 1)>>, <<V(0, 0, -5), V(0, 0, 1)>>,
                <<V(0, 0, 8), V(0, 0, -1)>>, <<V(0, 0, 0), V(0, 0, 2)>>,
                <<V(-3, 0, -4), V(3, 0, 4)>>, <<V(0, 3, -5), V(0, 0, 1)>>},
        nz \in BOOLEAN}

HitWindows == {<<T_MIN, F64_MAX>>, <<F(0), F(5)>>}

Worlds == UNION {[1 .. n -> HitPrims] : n \in 0 .. MaxPrims}

InitHit ==
    /\ pc = "HitableList_hit"
    /\ AabbIdle
    /\ RestIdle
    /\ world \in Worlds
    /\ ray \in HitRays
    /\ \A i \in 1 .. Len(world) : ExactFor(world[i], ray)
    /\ \E w \in HitWindows : t_min = w[1] /\ t_max = w[2]
    /\ idx = 0
    /\ locals = None
    /\ out = None
    /\ bvh = None
    /\ bvh_out = None

\* self.list[0] of an empty list: the index is out of bounds
HitableList_hit_panic ==
    /\ pc = "HitableList_hit"
    /\ Len(world) = 0
    /\ pc' = "panic"
    /\ UNCHANGED restVars
    /\ UNCHANGED <<ray, t_min, t_max, aabbVars, hitVars>>

HitableList_hit_enter ==
    /\ pc = "HitableList_hit"
    /\ Len(world) > 0
    /\ locals' = HitableList_hit_locals(world, t_max, HitRecord_new)
    /\ idx' = 1
    /\ pc' = "scan"
    /\ UNCHANGED restVars
    /\ UNCHANGED <<ray, t_min, t_max, aabbVars, world, out, bvh, bvh_out>>

HitableList_hit_pass ==
    /\ pc = "scan"
    /\ idx <= Len(world)
    /\ locals' = HitableList_hit_iter(locals, world[idx], ray, t_min, t_max)
    /\ idx' = idx + 1
    /\ UNCHANGED restVars
    /\ UNCHANGED <<commonVars, aabbVars, world, out, bvh, bvh_out>>

HitableList_hit_return ==
    /\ pc = "scan"
    /\ idx > Len(world)
    /\ out' = [hit |-> locals.hit_anything, rec |-> locals.rec,
               mat |-> locals.material_ptr]
    /\ pc' = "BvhNode_new"
    /\ UNCHANGED restVars
    /\ UNCHANGED <<ray, t_min, t_max, aabbVars, world, idx, locals, bvh,
                   bvh_out>>

CallBvhNodeNew ==
    /\ pc = "BvhNode_new"
    /\ bvh' \in BvhNode_new(world, F(0), F(1))
    /\ pc' = "BvhNode_hit"
    /\ UNCHANGED restVars
    /\ UNCHANGED <<ray, t_min, t_max, aabbVars, world, idx, locals, out,
                   bvh_out>>

CallBvhNodeHit ==
    /\ pc = "BvhNode_hit"
    /\ bvh_out' = Hitable_hit(bvh, ray, t_min, t_max, HitRecord_new)
    /\ pc' = "done"
    /\ UNCHANGED restVars
    /\ UNCHANGED <<ray, t_min, t_max, aabbVars, world, idx, locals, out,
                   bvh>>

NextHit ==
    \/ HitableList_hit_panic
    \/ HitableList_hit_enter
    \/ HitableList_hit_pass
    \/ HitableList_hit_return
    \/ CallBvhNodeNew
    \/ CallBvhNodeHit

SpecHit == InitHit /\ [][NextHit]_vars

(***************************************************************************)
(* SpecDielectric: Dielectric::scatter applied to bounded inputs.  The     *)
(* directions have rational lengths and the normals are unit vectors; an   *)
(* input is kept when the discriminant of refract is not positive or has   *)
(* an exact square root.                                                   *)
(***************************************************************************)
RefIndices == {F(1), Frac(3, 2)}

ScatterDirs ==
    {V(0, 0, -1), V(0, 0, -2), V(0, 0, 1), V(0, 0, 3), V(3, 0, -4),
     V(0, 4, -3), V(0, -3, 4), V(1, 0, 0), V(3, 4, 0)}

ScatterNormals == {V(0, 0, 1), V(0, 0, -1), V(0, 1, 0)}

ScatterPoints == {V(0, 0, 0), V(0, 0, 3)}

\* rng.gen::<f64>() is in [0, 1)
Rngs == {F(0), Frac(1, 100), Frac(1, 2), Frac(99, 100)}

ExactRefract(d, n, ref_index) ==
    \A ni \in {ref_index, FDiv(F(1), ref_index)} :
        LET x == refract_discriminant(d, n, ni)
        IN  ~FGt(x, F(0)) \/ HasSqrt(x)

InitDielectric ==
    /\ pc = "Dielectric_scatter"
    /\ t_min = F(0)
    /\ t_max = F(0)
    /\ ExtIdle
    /\ AabbIdle
    /\ HitIdle
    /\ ColorIdle
    /\ FoldIdle
    /\ \E ri \in RefIndices : mat = Dielectric_new(ri)
    /\ \E o \in ScatterPoints, d \in ScatterDirs, dbg \in BOOLEAN :
           /\ ray = Ray_with_values(VSub(o, d), d, F(0), dbg, FALSE)
           /\ \E n \in ScatterNormals :
                  hit_record = [HitRecord_new EXCEPT !.t = F(1), !.p = o,
                                                     !.normal = n]
    /\ ExactRefract(ray.dir, hit_record.normal, mat.ref_index)
    /\ rng \in Rngs
    /\ scattered = None

CallDielectricScatter ==
    /\ pc = "Dielectric_scatter"
    /\ scattered' = Dielectric_scatter(mat, ray, hit_record, Vec3_new,
                                       Ray_new(ray.debug), rng)
    /\ pc' = "Dielectric_scatter_ret"
    /\ UNCHANGED extVars
    /\ UNCHANGED <<ray, t_min, t_max, aabbVars, hitVars, colorVars, mat,
                   hit_record, rng, foldVars>>

NextDielectric == CallDielectricScatter

SpecDielectric == InitDielectric /\ [][NextDielectric]_vars

(***************************************************************************)
(* SpecColor: Ray::color(world, 0) on worlds of at most two spheres on the *)
(* z axis that face each other, for rays on and off that axis.  The        *)
(* vectors drawn for Ray::random_in_sphere are on the axis, so that every  *)
(* ray that meets a sphere stays on it and every root is exact.            *)
(***************************************************************************)
White == V(1, 1, 1)

ColorMats ==
    {Lambertian_new(White), Metal_new(White, F(0)),
     Dielectric_new(Frac(3, 2)), DiffuseLight_new(White)}

ColorA(m) == Sphere_with_values(V(0, 0, -3), F(2), m)

ColorB(m) == Sphere_with_values(V(0, 0, 4), F(1), m)

ColorWorlds ==
    {<<>>}
    \cup {<<ColorB(m)>> : m \in ColorMats}
    \cup {<<ColorA(m), ColorB(m)>> : m \in ColorMats}
    \cup {<<ColorA(Lambertian_new(White)), ColorB(m)>> : m \in ColorMats}
    \cup {<<ColorB(Metal_new(Grey, F(0)))>>, <<ColorB(Lambertian_new(Grey))>>,
          <<ColorA(Lambertian_new(Grey)), ColorB(DiffuseLight_new(White))>>}

ColorRays ==
    {Ray_with_values(od[1], od[2], F(0), dbg, FALSE) :
         od \in {<<V(0, 0, 0), V(0, 0, 1)>>, <<V(0, 0, 0), V(0, 0, -1)>>,
                 <<V(0, 3, 0), V(0, 0, 1)>>},
         dbg \in BOOLEAN}

\* values of Ray::random_in_sphere: vectors p with p.squared_len() < 1.0.
\* Its rejection loop is taken to return: a draw is accepted with
\* probability pi / 6.
RandomInSphere ==
    {V(0, 0, 0), <<F(0), F(0), Frac(1, 2)>>, <<F(0), F(0), Frac(-1, 2)>>}

ColorRngs == {F(0), Frac(1, 2)}

InitColor ==
    /\ pc = "Ray_color"
    /\ t_min = T_MIN
    /\ t_max = F64_MAX
    /\ ExtIdle
    /\ AabbIdle
    /\ ScatterIdle
    /\ FoldIdle
    /\ world \in ColorWorlds
    /\ ray \in ColorRays
    /\ idx = 0
    /\ locals = None
    /\ out = None
    /\ bvh = None
    /\ bvh_out = None
    /\ depth = 0
    /\ tests = 0
    /\ frames = <<>>
    /\ col = NoColor

\* world.hit indexes self.list[0]: an empty world panics
Ray_color_panic ==
    /\ pc = "Ray_color"
    /\ Len(world) = 0
    /\ tests' = tests + 1
    /\ pc' = "panic"
    /\ UNCHANGED extVars
    /\ UNCHANGED <<ray, t_min, t_max, aabbVars, hitVars, depth, frames, col,
                   scatterVars, foldVars>>

\* world.hit(self, 0.001, f64::MAX, &mut record) is entered
Ray_color_call ==
    /\ pc = "Ray_color"
    /\ Len(world) > 0
    /\ locals' = HitableList_hit_locals(world, t_max, HitRecord_new)
    /\ idx' = 1
    /\ tests' = tests + 1
    /\ pc' = "scan"
    /\ UNCHANGED extVars
    /\ UNCHANGED <<ray, t_min, t_max, aabbVars, world, out, bvh, bvh_out,
                   depth, frames, col, scatterVars, foldVars>>

\* the scatter of the body b is followed: the frame is left, the inner
\* call gets the scattered ray
Ray_color_follow(b) ==
    /\ b.hit
    /\ Ray_color_recurses(depth, b.scatter.ok)
    /\ frames' = Append(frames, [emitted |-> b.emitted,
                                 attenuation |-> b.scatter.attenuation])
    /\ ray' = b.scatter.scattered

\* world.hit has returned a hit whose scatter is followed: the inner call
\* starts
Ray_color_scatter ==
    /\ pc = "scan"
    /\ idx > Len(world)
    /\ \E rnd \in RandomInSphere, g \in ColorRngs :
           Ray_color_follow(
               Ray_color_after_hit(ray, HitableList_hit_result(locals),
                                   rnd, g))
    /\ depth' = depth + 1
    /\ pc' = "Ray_color"
    /\ UNCHANGED extVars
    /\ UNCHANGED <<t_min, t_max, aabbVars, hitVars, tests, col, scatterVars,
                   foldVars>>

\* the scatter of the body b is not followed
Ray_color_stop(b) ==
    /\ b.hit
    /\ ~Ray_color_recurses(depth, b.scatter.ok)
    /\ col' = b.emitted

\* world.hit has returned a hit whose scatter is not followed: return
\* emitted
Ray_color_emitted ==
    /\ pc = "scan"
    /\ idx > Len(world)
    /\ \E rnd \in RandomInSphere, g \in ColorRngs :
           Ray_color_stop(
               Ray_color_after_hit(ray, HitableList_hit_result(locals),
                                   rnd, g))
    /\ pc' = "Ray_color_ret"
    /\ UNCHANGED extVars
    /\ UNCHANGED <<ray, t_min, t_max, aabbVars, hitVars, depth, tests,
                   frames, scatterVars, foldVars>>

\* world.hit has returned no hit: return the background
Ray_color_miss ==
    /\ pc = "scan"
    /\ idx > Len(world)
    /\ ~locals.hit_anything
    /\ col' = Ray_color_background(ray)
    /\ pc' = "Ray_color_ret"
    /\ UNCHANGED extVars
    /\ UNCHANGED <<ray, t_min, t_max, aabbVars, hitVars, depth, tests,
                   frames, scatterVars, foldVars>>

\* the inner call has returned: return emitted + attenuation * color
Ray_color_return ==
    /\ pc = "Ray_color_ret"
    /\ frames # <<>>
    /\ LET f == frames[Len(frames)]
       IN  col' = Ray_color_result(f.emitted, f.attenuation, col)
    /\ frames' = SubSeq(frames, 1, Len(frames) - 1)
    /\ depth' = depth - 1
    /\ UNCHANGED extVars
    /\ UNCHANGED <<pc, ray, t_min, t_max, aabbVars, hitVars, tests,
                   scatterVars, foldVars>>

NextColor ==
    \/ Ray_color_panic
    \/ Ray_color_call
    \/ HitableList_hit_pass
    \/ Ray_color_scatter
    \/ Ray_color_emitted
    \/ Ray_color_miss
    \/ Ray_color_return

SpecColor == InitColor /\ [][NextColor]_vars

\* a call under way is never suspended for ever
SpecColorFair == SpecColor /\ WF_vars(NextColor)

(***************************************************************************)
(* SpecFold: the fold of main over the partial images the workers sent.    *)
(***************************************************************************)
\* the workers of the model; main spawns CORE_CNT of them
MaxWorkers == 3

PixelIndex == {<<0, 0>>, <<0, 1>>}

Pixels == {<<0, 0, 0>>, <<255, 255, 255>>, <<1, 6, 255>>, <<6, 6, 6>>}

PartialImages == [PixelIndex -> Pixels]

\* the accumulator the fold starts from
blank == [p \in PixelIndex |-> <<0, 0, 0>>]

InitFold ==
    /\ pc = "fold"
    /\ ray = NoRay
    /\ t_min = F(0)
    /\ t_max = F(0)
    /\ ExtIdle
    /\ AabbIdle
    /\ HitIdle
    /\ ColorIdle
    /\ ScatterIdle
    /\ results \in UNION {[1 .. n -> PartialImages] : n \in 1 .. MaxWorkers}
    /\ acc = blank
    /\ fold_at = 0
    /\ image = None

\* the closure of the fold, applied to the next partial image
FoldStep ==
    /\ pc = "fold"
    /\ fold_at < Len(results)
    /\ acc' = fold_closure(acc, results[fold_at + 1])
    /\ fold_at' = fold_at + 1
    /\ UNCHANGED extVars
    /\ UNCHANGED <<commonVars, aabbVars, hitVars, colorVars, scatterVars,
                   results, image>>

\* put_pixel for every pixel of r, and image.save
SaveImage ==
    /\ pc = "fold"
    /\ fold_at = Len(results)
    /\ image' = acc
    /\ pc' = "saved"
    /\ UNCHANGED extVars
    /\ UNCHANGED <<ray, t_min, t_max, aabbVars, hitVars, colorVars,
                   scatterVars, results, acc, fold_at>>

NextFold == FoldStep \/ SaveImage

SpecFold == InitFold /\ [][NextFold]_vars

(***************************************************************************)
(* SpecCamera: Camera::get_ray on cameras built by Camera::new from        *)
(* bounded parameters.  The viewing directions have rational lengths.      *)
(***************************************************************************)
\* lookfrom and lookat
CameraViews ==
    {<<V(0, 0, 0), V(0, 0, -1)>>, <<V(0, 0, 3), V(0, 0, 0)>>,
     <<V(3, 0, 4), V(0, 0, 0)>>}

CameraUp == V(0, 1, 0)

VFovs == {F(0), F(90)}

Aspects == {F(1), F(2)}

Apertures == {F(0), F(2)}

FocusDists == {F(1), F(2)}

\* t0 and t1
Shutters == {<<F(0), F(0)>>, <<F(0), F(1)>>}

Cameras ==
    {Camera_new(lf[1], lf[2], CameraUp, vfov, aspect, aperture, fd,
                sh[1], sh[2]) :
        lf \in CameraViews, vfov \in VFovs, aspect \in Aspects,
        aperture \in Apertures, fd \in FocusDists, sh \in Shutters}

\* points of the unit disk: squared_len() < 1 and z = 0
UnitDisk ==
    {V(0, 0, 0), <<Frac(1, 2), F(0), F(0)>>, <<F(0), Frac(-1, 2), F(0)>>,
     <<Frac(1, 2), Frac(1, 2), F(0)>>}

ImagePlane == {F(0), Frac(1, 2), F(1)}

InitCamera ==
    /\ pc = "Camera_get_ray"
    /\ ray = NoRay
    /\ t_min = F(0)
    /\ t_max = F(0)
    /\ AabbIdle
    /\ HitIdle
    /\ ColorIdle
    /\ FoldIdle
    /\ MainIdle
    /\ BuildIdle
    /\ PartIdle
    /\ mat = None
    /\ hit_record = None
    /\ scattered = None
    /\ rng \in {F(0), Frac(1, 2)}
    /\ camera \in Cameras
    /\ lens \in UnitDisk
    /\ st \in ImagePlane \X ImagePlane

CallCameraGetRay ==
    /\ pc = "Camera_get_ray"
    /\ ray' = Camera_get_ray(camera, st[1], st[2], lens, rng)
    /\ pc' = "Camera_get_ray_ret"
    /\ UNCHANGED <<t_min, t_max, aabbVars, hitVars, colorVars, scatterVars,
                   foldVars, extVars>>

NextCamera == CallCameraGetRay

SpecCamera == InitCamera /\ [][NextCamera]_vars

(***************************************************************************)
(* SpecBuild: HitableList::bounding_box on lists of spheres and lists, and *)
(* BvhNode::new step by step on lists of spheres, the empty list among     *)
(* them.  The inner calls of BvhNode::new on the halves of a list of three *)
(* or more are taken whole; the inner call on an empty list is entered as  *)
(* a step, since it is the call that was just made.                        *)
(***************************************************************************)
\* the nested calls of BvhNode::new the stack has room for
MaxCalls == 4

\* spheres whose boxes start at 1, 3, 2, -1 and 0 on the x axis
BuildPrims ==
    {Sphere_with_values(V(2, 0, 0), F(1), MatA),
     Sphere_with_values(V(4, 0, 0), F(1), MatA),
     Sphere_with_values(V(3, 0, 0), F(1), MatB),
     Sphere_with_values(V(0, 0, 0), F(1), MatB),
     Sphere_with_values(V(1, 1, 1), F(1), MatA)}

BuildWorlds == UNION {[1 .. n -> BuildPrims] : n \in 0 .. MaxPrims}

\* the children of a list: spheres, the empty list, a list of one sphere
BoxChildren ==
    HitPrims \cup {HitableList_with(<<>>)}
        \cup {HitableList_with(<<p>>) : p \in HitPrims}

BoxWorlds == UNION {[1 .. n -> BoxChildren] : n \in 0 .. 2}

InitBuild ==
    /\ ray = NoRay
    /\ t_min = F(0)
    /\ t_max = F(1)
    /\ AabbIdle
    /\ idx = 0
    /\ locals = None
    /\ out = None
    /\ bvh = None
    /\ bvh_out = None
    /\ ColorIdle
    /\ ScatterIdle
    /\ FoldIdle
    /\ CameraIdle
    /\ MainIdle
    /\ PartIdle
    /\ axis = 0
    /\ nodes = <<>>
    /\ \/ /\ pc = "HitableList_bounding_box"
          /\ world \in BoxWorlds
          /\ calls = 0
       \/ /\ pc = "BvhNode_new"
          /\ world \in BuildWorlds
          /\ calls = 1

buildRest ==
    <<ray, t_min, t_max, box0, box1, out_hit, idx, locals, out, bvh_out,
      colorVars, scatterVars, foldVars, cameraVars, mainVars, partVars>>

CallHitableListBoundingBox ==
    /\ pc = "HitableList_bounding_box"
    /\ out_box' = HitableList_bounding_box(world, t_min, t_max, NoBoxYet)
    /\ pc' = "HitableList_bounding_box_ret"
    /\ UNCHANGED <<buildRest, world, bvh, buildVars>>

\* the axis is drawn and the list sorted
BvhNode_new_sort ==
    /\ pc = "BvhNode_new"
    /\ axis' \in Axes
    /\ nodes' \in sort_unstable_by(world, axis')
    /\ pc' = "BvhNode_new_sorted"
    /\ UNCHANGED <<buildRest, out_box, world, bvh, calls>>

\* nodes.len() is 1, 2, or 3 and more
BvhNode_new_build ==
    /\ pc = "BvhNode_new_sorted"
    /\ Len(nodes) > 0
    /\ bvh' \in BvhNode_new_from(nodes, t_min, t_max)
    /\ calls' = calls - 1
    /\ pc' = "BvhNode_new_ret"
    /\ UNCHANGED <<buildRest, out_box, world, axis, nodes>>

\* nodes.len() is 0: the last branch calls BvhNode::new on
\* nodes.split_off(0), the empty list again
BvhNode_new_recurse ==
    /\ pc = "BvhNode_new_sorted"
    /\ Len(nodes) = 0
    /\ calls < MaxCalls
    /\ world' = SubSeq(nodes, Len(nodes) \div 2 + 1, Len(nodes))
    /\ calls' = calls + 1
    /\ pc' = "BvhNode_new"
    /\ UNCHANGED <<buildRest, out_box, bvh, axis, nodes>>

\* the same call with no room left on the stack: the process is killed
BvhNode_new_overflow ==
    /\ pc = "BvhNode_new_sorted"
    /\ Len(nodes) = 0
    /\ calls = MaxCalls
    /\ pc' = "stack_overflow"
    /\ UNCHANGED <<buildRest, out_box, world, bvh, buildVars>>

NextBuild ==
    \/ CallHitableListBoundingBox
    \/ BvhNode_new_sort
    \/ BvhNode_new_build
    \/ BvhNode_new_recurse
    \/ BvhNode_new_overflow

SpecBuild == InitBuild /\ [][NextBuild]_vars

(***************************************************************************)
(* SpecMain: main (src/src/main.rs) from the spawn loop to image.save,     *)
(* with the worker threads running beside it.  A worker renders into its   *)
(* own result array, sends it and ends, or panics before it has sent; the  *)
(* main thread joins the handles in the order of the spawns and receives   *)
(* one result after every join.                                            *)
(***************************************************************************)
\* CORE_CNT is 16 in main.rs; the model spawns MaxWorkers workers
CORE_CNT == MaxWorkers

\* the images a worker may render
WorkerImages == {blank, [p \in PixelIndex |-> <<255, 255, 255>>]}

\* mutant of JoinHandle_join: the result of the join is not looked at
JoinHandle_join_ignored(t) == "Ok"

\* i.join(): Err when the thread panicked
JoinHandle_join(t) == IF t.at = "panicked" THEN "Err" ELSE "Ok"

\* mutant of Sender_send: the result is dropped
Sender_send_lost(queue, result) == queue

\* tx.send(result) on the channel of main: the results sent and not yet
\* received, in the order of the sends
Sender_send(queue, result) == Append(queue, result)

\* mutant of threads_drained: the loop leaves out the last handle
threads_drained_early(n, handles) == n + 1 >= Len(handles)

\* the loop over threads.drain(0..) has joined every handle
threads_drained(n, handles) == n = Len(handles)

\* the process runs until main returns or panics
MainRunning == pc \notin {"main_panicked", "saved"}

InitMain ==
    /\ pc = "spawn"
    /\ ray = NoRay
    /\ t_min = F(0)
    /\ t_max = F(0)
    /\ AabbIdle
    /\ HitIdle
    /\ ColorIdle
    /\ ScatterIdle
    /\ FoldIdle
    /\ CameraIdle
    /\ BuildIdle
    /\ PartIdle
    /\ threads = <<>>
    /\ chan = <<>>
    /\ joined = 0

mainRest ==
    <<ray, t_min, t_max, aabbVars, hitVars, colorVars, scatterVars,
      cameraVars, buildVars, partVars>>

\* spawn(move || ...) and threads.push(handle)
MainSpawn ==
    /\ pc = "spawn"
    /\ threads' = Append(threads, [at |-> "render", result |-> blank])
    /\ pc' = IF Len(threads') = CORE_CNT THEN "join" ELSE "spawn"
    /\ UNCHANGED <<mainRest, foldVars, chan, joined>>

\* the worker fills its result array
WorkerRender(i) ==
    /\ MainRunning
    /\ threads[i].at = "render"
    /\ \E img \in WorkerImages :
           threads' = [threads EXCEPT ![i] = [at |-> "send", result |-> img]]
    /\ UNCHANGED <<pc, mainRest, foldVars, chan, joined>>

\* the worker panics in its closure, before tx.send
WorkerPanic(i) ==
    /\ MainRunning
    /\ threads[i].at = "render"
    /\ threads' = [threads EXCEPT ![i].at = "panicked"]
    /\ UNCHANGED <<pc, mainRest, foldVars, chan, joined>>

\* let _ = tx.send(result)
WorkerSend(i) ==
    /\ MainRunning
    /\ threads[i].at = "send"
    /\ chan' = Sender_send(chan, threads[i].result)
    /\ threads' = [threads EXCEPT ![i].at = "sent"]
    /\ UNCHANGED <<pc, mainRest, foldVars, joined>>

\* the closure returns and the thread ends
WorkerExit(i) ==
    /\ MainRunning
    /\ threads[i].at = "sent"
    /\ threads' = [threads EXCEPT ![i].at = "exited"]
    /\ UNCHANGED <<pc, mainRest, foldVars, chan, joined>>

\* i.join().unwrap(): waits for the thread to end
MainJoin ==
    /\ pc = "join"
    /\ threads[joined + 1].at \in {"exited", "panicked"}
    /\ joined' = joined + 1
    /\ pc' = IF JoinHandle_join(threads[joined + 1]) = "Err"
             THEN "main_panicked" ELSE "recv"
    /\ UNCHANGED <<mainRest, foldVars, threads, chan>>

\* results.push(rx.recv().unwrap()): waits for a result; after the last
\* handle, blank is built and the fold starts
MainRecv ==
    /\ pc = "recv"
    /\ chan # <<>>
    /\ results' = Append(results, Head(chan))
    /\ chan' = Tail(chan)
    /\ IF threads_drained(joined, threads)
       THEN pc' = "fold" /\ acc' = blank
       ELSE pc' = "join" /\ acc' = acc
    /\ UNCHANGED <<mainRest, fold_at, image, threads, joined>>

NextMain ==
    \/ MainSpawn
    \/ \E i \in 1 .. Len(threads) : WorkerRender(i)
    \/ \E i \in 1 .. Len(threads) : WorkerPanic(i)
    \/ \E i \in 1 .. Len(threads) : WorkerSend(i)
    \/ \E i \in 1 .. Len(threads) : WorkerExit(i)
    \/ MainJoin
    \/ MainRecv
    \/ FoldStep
    \/ SaveImage

SpecMain == InitMain /\ [][NextMain]_vars

\* the threads are scheduled: a step that can be taken is taken
SpecMainFair == SpecMain /\ WF_vars(NextMain)

(***************************************************************************)
(* SpecParts: single calls on bounded inputs.  RectSlice*::hit on a        *)
(* rectangle, a ray and a window; HitableList::hit on lists that mix the   *)
(* kinds of primitive, all of them on the z axis, for a ray along that     *)
(* axis; Metal::new on a fuzz; Metal::scatter as Ray::color calls it; and  *)
(* the u and v a worker computes for a pixel and the two f64 it drew.      *)
(***************************************************************************)
MUL == 8

nx == 200 * MUL

ny == 100 * MUL

\* u and v of the worker's innermost loop, for the f64 gen_u and gen_v that
\* rng.gen() returned
Worker_uv(i, j, gen_u, gen_v) ==
    <<FDiv(FAdd(F(i), gen_u), F(nx)), FDiv(FAdd(F(ny - j), gen_v), F(ny))>>

Rects ==
    {RectSliceXy_new(MatA, F(0), F(2), F(0), F(2), F(2)),
     RectSliceXz_new(MatA, F(0), F(2), F(0), F(2), F(2)),
     RectSliceYz_new(MatA, F(0), F(2), F(0), F(2), F(2))}

RectOrigins == {V(0, 0, 0), V(1, 1, 1), V(1, 1, 2), V(3, 3, 1)}

RectDirs == {V(0, 0, 1), V(0, 1, 0), V(1, 0, 0), V(1, 1, 1), V(0, 0, -1)}

RectWindows ==
    {<<T_MIN, F64_MAX>>, <<F(0), F(2)>>, <<F(1), F(4)>>, <<F(2), F(4)>>}

MixPrims ==
    {Sphere_with_values(V(0, 0, 5), F(1), MatA),
     MovingSphere_with_values(<<V(0, 0, 3), V(0, 0, 5)>>, F(0), F(1), F(1),
                              MatB),
     RectSliceXy_new(MatA, F(-1), F(1), F(-1), F(1), F(7)),
     FlipNormals_new(RectSliceXy_new(MatB, F(-1), F(1), F(-1), F(1), F(1))),
     FlipNormals_new(Sphere_with_values(V(0, 0, 9), F(1), MatB))}

MixWorlds == UNION {[1 .. n -> MixPrims] : n \in 1 .. 2}

RayTimes == {F(0), Frac(1, 2)}

Fuzzes ==
    {F(-1), Frac(-1, 2), F(0), Frac(1, 2), F(1), Frac(3, 2), F(10), PInf,
     NInf, NaN}

PixelColumns == {0, 1, nx \div 2, nx - 1}

PixelRows == {0, 1, ny \div 2, ny - 1}

Jitters == {F(0), Frac(1, 2), Frac(999, 1000)}

InitParts ==
    /\ AabbIdle
    /\ idx = 0
    /\ locals = None
    /\ out = None
    /\ bvh = None
    /\ bvh_out = None
    /\ ColorIdle
    /\ FoldIdle
    /\ MainIdle
    /\ BuildIdle
    /\ CameraIdle
    /\ rng = F(0)
    /\ scattered = None
    /\ \/ /\ pc = "RectSlice_hit"
          /\ \E rect \in Rects : world = <<rect>>
          /\ \E o \in RectOrigins, d \in RectDirs :
                 ray = Ray_with_values(o, d, F(0), FALSE, FALSE)
          /\ \E w \in RectWindows : t_min = w[1] /\ t_max = w[2]
          /\ mat = None /\ hit_record = None /\ PartIdle
       \/ /\ pc = "HitableList_hit"
          /\ world \in MixWorlds
          /\ \E tm \in RayTimes :
                 ray = Ray_with_values(V(0, 0, 0), V(0, 0, 1), tm, FALSE,
                                       FALSE)
          /\ t_min = T_MIN /\ t_max = F64_MAX
          /\ mat = None /\ hit_record = None /\ PartIdle
       \/ /\ pc = "Metal_new"
          /\ fuzz \in Fuzzes
          /\ world = <<>> /\ ray = NoRay /\ t_min = F(0) /\ t_max = F(0)
          /\ mat = None /\ hit_record = None /\ pixel = None
       \/ /\ pc = "Material_scatter"
          /\ \E f \in {F(0), F(1)} : mat = Metal_new(Grey, f)
          /\ \E tm \in RayTimes, debug \in BOOLEAN :
                 ray = Ray_with_values(V(0, 0, 0), V(0, 0, 1), tm, debug,
                                       FALSE)
          /\ hit_record = [HitRecord_new EXCEPT !.t = F(4), !.p = V(0, 0, 4),
                                                !.normal = V(0, 0, -1)]
          /\ world = <<>> /\ t_min = F(0) /\ t_max = F(0) /\ PartIdle
       \/ /\ pc = "worker"
          /\ \E i \in PixelColumns, j \in PixelRows, gen_u \in Jitters,
                gen_v \in Jitters :
                 pixel = [i |-> i, j |-> j, gen_u |-> gen_u, gen_v |-> gen_v]
          /\ world = <<>> /\ ray = NoRay /\ t_min = F(0) /\ t_max = F(0)
          /\ mat = None /\ hit_record = None /\ fuzz = F(0)

partRest == <<aabbVars, colorVars, foldVars, mainVars, buildVars>>

CallRectSliceHit ==
    /\ pc = "RectSlice_hit"
    /\ out' = RectSlice_hit(world[1], ray, t_min, t_max, HitRecord_new)
    /\ pc' = "RectSlice_hit_ret"
    /\ UNCHANGED <<ray, t_min, t_max, world, idx, locals, bvh, bvh_out,
                   partRest, scatterVars, cameraVars, partVars>>

CallHitableListHit ==
    /\ pc = "HitableList_hit"
    /\ out' = HitableList_hit(world, ray, t_min, t_max, HitRecord_new)
    /\ pc' = "HitableList_hit_ret"
    /\ UNCHANGED <<ray, t_min, t_max, world, idx, locals, bvh, bvh_out,
                   partRest, scatterVars, cameraVars, partVars>>

\* Metal::new(texture, fuzz)
CallMetalNew ==
    /\ pc = "Metal_new"
    /\ mat' = Metal_new(Grey, fuzz)
    /\ pc' = "Metal_new_ret"
    /\ UNCHANGED <<ray, t_min, t_max, hitVars, partRest, hit_record, rng,
                   scattered, cameraVars, partVars>>

\* the scatter call of Ray::color: scattered is Ray::new(self.3) before it
CallMaterialScatter ==
    /\ pc = "Material_scatter"
    /\ \E rnd \in RandomInSphere :
           scattered' = Material_scatter(mat, ray, hit_record, Vec3_new,
                                         Ray_new(ray.debug), rnd, rng)
    /\ pc' = "Material_scatter_ret"
    /\ UNCHANGED <<ray, t_min, t_max, hitVars, partRest, mat, hit_record, rng,
                   cameraVars, partVars>>

\* one pass of the worker's innermost loop up to the call of get_ray
WorkerPixel ==
    /\ pc = "worker"
    /\ st' = Worker_uv(pixel.i, pixel.j, pixel.gen_u, pixel.gen_v)
    /\ pc' = "Camera_get_ray"
    /\ UNCHANGED <<ray, t_min, t_max, hitVars, partRest, scatterVars, camera,
                   lens, partVars>>

NextParts ==
    \/ CallRectSliceHit
    \/ CallHitableListHit
    \/ CallMetalNew
    \/ CallMaterialScatter
    \/ WorkerPixel

SpecParts == InitParts /\ [][NextParts]_vars

(***************************************************************************)
(* Claims about the boxes (checked under SpecAabb)                         *)
(***************************************************************************)
\* min <= max on every axis
WellFormed(b) == \A i \in Axes : FLe(b.min[i], b.max[i])

\* min < max on every axis
Thick(b) == \A i \in Axes : FLt(b.min[i], b.max[i])

\* C5: surrounding_box(A, B) of two boxes with min <= max contains both: on
\* every axis its min is the smaller of the two mins and its max the larger
\* of the two maxes.
C5_SurroundingBoxContains ==
    (pc = "surrounding_box_ret" /\ WellFormed(box0) /\ WellFormed(box1)) =>
        \A i \in Axes :
            /\ FLe(out_box.min[i], box0.min[i])
            /\ FLe(out_box.min[i], box1.min[i])
            /\ FLe(box0.max[i], out_box.max[i])
            /\ FLe(box1.max[i], out_box.max[i])
            /\ out_box.min[i] \in {box0.min[i], box1.min[i]}
            /\ out_box.max[i] \in {box0.max[i], box1.max[i]}

\* a union that is neither argument: each box sticks out of the other
C5_Witness ==
    /\ pc = "surrounding_box_ret"
    /\ WellFormed(box0)
    /\ WellFormed(box1)
    /\ out_box # box0
    /\ out_box # box1

\* the ray parameters k/4 inside the widest window: the entry and exit
\* parameters of the lattice boxes are integers, so every non-empty
\* interval between two of them holds one of these
TGrid == {Frac(k, 4) : k \in 0 .. 4 * (2 * MaxCoord + 4)}

\* the geometry of the slab test on a set of axes: some point of the ray
\* with parameter strictly inside the window lies strictly inside the slabs
Inside(box, r, axes, tmin, tmax) ==
    \E t \in TGrid :
        /\ FLt(tmin, t)
        /\ FLt(t, tmax)
        /\ \A i \in axes :
              LET x == FAdd(r.orig[i], FMul(t, r.dir[i]))
              IN  FLt(box.min[i], x) /\ FLt(x, box.max[i])

ZeroAxes(r) == {i \in Axes : r.dir[i] = F(0)}

\* C6 as stated: a zero direction component makes the box unbounded on that
\* axis, wherever the origin is on it.
C6_ZeroAxisUnbounded ==
    (pc = "Aabb_hit_ret" /\ Thick(box0)) =>
        \A i \in ZeroAxes(ray) :
            out_hit = Inside(box0, ray, Axes \ {i}, t_min, t_max)

\* C6 amended: on an axis with a zero direction component the box is
\* unbounded for an origin strictly between min and max on that axis, and
\* missed for every other origin.
C6_ZeroAxisSlab ==
    (pc = "Aabb_hit_ret" /\ Thick(box0)) =>
        \A i \in ZeroAxes(ray) :
            out_hit = (/\ FLt(box0.min[i], ray.orig[i])
                       /\ FLt(ray.orig[i], box0.max[i])
                       /\ Inside(box0, ray, Axes \ {i}, t_min, t_max))

\* a ray parallel to a slab and outside it, aimed at the box on the other
\* two axes
C6_Witness ==
    /\ pc = "Aabb_hit_ret"
    /\ Thick(box0)
    /\ \E i \in ZeroAxes(ray) :
          /\ FLt(ray.orig[i], box0.min[i])
          /\ Inside(box0, ray, Axes \ {i}, t_min, t_max)
          /\ out_hit = FALSE

\* the box with min and max exchanged on the axes where min > max
Swapped(b) ==
    Aabb_new([i \in Axes |-> FMin(b.min[i], b.max[i])],
             [i \in Axes |-> FMax(b.min[i], b.max[i])])

SphereRoots(s, r) ==
    LET a == dot(r.dir, r.dir)[1]
        b == dot(VSub(r.orig, s.center), r.dir)[1]
        k_max == 2 * Abs(b) + s.radius[1] * a + 1
    IN  {t \in {Frac(k, a) : k \in -k_max .. k_max} :
            squared_len(VSub(point_at_param(r, t), s.center))
                = FMul(s.radius, s.radius)}

InWindow(t) == FLt(t_min, t) /\ FLt(t, t_max)

\* C4: when the ray meets the sphere at t1 < t2, both strictly inside the
\* window, Sphere::hit returns true with t = t1, p = origin + t1 * direction
\* and normal = (p - center) / radius, of length 1; the unit sphere at the
\* origin seen from (0,0,-5) along (0,0,1) gives t = 4, p = (0,0,-1),
\* normal = (0,0,-1); a ray that meets the sphere at most once (discriminant
\* <= 0) reports no hit.
C4_SphereNearestRoot ==
    pc = "Sphere_hit_ret" =>
        LET s == world[1]
            roots == SphereRoots(s, ray)
        IN  /\ (Cardinality(roots) = 2 /\ \A t \in roots : InWindow(t)) =>
                   /\ out.hit
                   /\ \A t \in roots : FLe(out.rec.t, t)
                   /\ out.rec.t \in roots
                   /\ out.rec.p = point_at_param(ray, out.rec.t)
                   /\ out.rec.normal = VDivS(VSub(out.rec.p, s.center), s.radius)
                   /\ squared_len(out.rec.normal) = F(1)
            /\ Cardinality(roots) <= 1 => ~out.hit
            /\ (/\ s.center = V(0, 0, 0)
                /\ s.radius = F(1)
                /\ ray.orig = V(0, 0, -5)
                /\ ray.dir = V(0, 0, 1)
                /\ t_min = T_MIN
                /\ t_max = F64_MAX) =>
                   /\ out.hit
                   /\ out.rec.t = F(4)
                   /\ out.rec.p = V(0, 0, -1)
                   /\ out.rec.normal = V(0, 0, -1)

\* a ray that crosses a sphere off its axis, both crossings in the window
C4_Witness ==
    /\ pc = "Sphere_hit_ret"
    /\ Cardinality(SphereRoots(world[1], ray)) = 2
    /\ \A t \in SphereRoots(world[1], ray) : InWindow(t)
    /\ ray.dir \in {V(3, 0, 4), V(0, 3, 4), V(1, 2, 2)}
    /\ world[1].center # V(0, 0, 0)
    /\ out.hit
    /\ out.rec.t[2] # 1

\* the roots found in the equation are the ones the discriminant announces
SphereRootsComplete ==
    pc = "Sphere_hit_ret" =>
        LET d == Sphere_discriminant(world[1], ray)
        IN  Cardinality(SphereRoots(world[1], ray)) =
                IF FGt(d, F(0)) THEN 2 ELSE IF d = F(0) THEN 1 ELSE 0


(***************************************************************************)
(* Claims about HitableList::hit and BvhNode::hit (checked under SpecHit)  *)
(***************************************************************************)
\* the children that report a hit when asked alone in the caller's window,
\* and the parameter each reports
ChildHits(i) == Hitable_hit(world[i], ray, t_min, t_max, HitRecord_new).hit

ChildT(i) == Hitable_hit(world[i], ray, t_min, t_max, HitRecord_new).rec.t

Scanned == pc \in {"BvhNode_new", "BvhNode_hit", "done"}

\* C3: on a non-empty list, HitableList::hit returns true iff some child
\* reports a hit in the window, the t it returns is the least t any child
\* reports, and the bound closest_so_far handed to the children never
\* increases from one pass of the loop to the next.
C3_ListNearest ==
    /\ [](Scanned =>
            /\ out.hit = (\E i \in 1 .. Len(world) : ChildHits(i))
            /\ out.hit =>
                  /\ \E i \in 1 .. Len(world) :
                         ChildHits(i) /\ out.rec.t = ChildT(i)
                  /\ \A i \in 1 .. Len(world) :
                         ChildHits(i) => FLe(out.rec.t, ChildT(i)))
    /\ [][(pc = "scan" /\ pc' = "scan") =>
              /\ FLe(locals'.closest_so_far, locals.closest_so_far)
              /\ FLe(locals.closest_so_far, t_max)]_vars

\* a scan whose nearest hit is neither the first nor the last child to hit
C3_Witness ==
    /\ Scanned
    /\ Len(world) = 3
    /\ \A i \in 1 .. 3 : ChildHits(i)
    /\ FLt(ChildT(2), ChildT(1))
    /\ FLt(ChildT(2), ChildT(3))
    /\ out.rec.t = ChildT(2)

\* C1 as stated: BvhNode::hit on the tree built from the primitives
\* returns what HitableList::hit returns on the list of them: the same
\* answer, and on a hit the same t and the same material.
C1_BvhSameAsList ==
    pc = "done" =>
        /\ bvh_out.hit = out.hit
        /\ out.hit => /\ bvh_out.rec.t = out.rec.t
                      /\ bvh_out.mat = out.mat

\* the part of C1 that holds: the same answer and the same t
BvhSameHitAndT ==
    pc = "done" =>
        /\ bvh_out.hit = out.hit
        /\ out.hit => bvh_out.rec.t = out.rec.t

(***************************************************************************)
(* Claims about Ray::color (checked under SpecColorFair)                   *)
(***************************************************************************)
\* the outermost call of Ray::color has returned, or the program has
\* panicked
ColorOver == pc = "panic" \/ (pc = "Ray_color_ret" /\ frames = <<>>)

\* every root taken along a path is exact
ColorExact ==
    (pc = "scan" /\ idx <= Len(world)) => ExactFor(world[idx], ray)

\* C2: Ray::color(world, 0) terminates for every world and ray, with at
\* most 51 calls of world.hit along the path, one at each of the depths
\* 0..50: the call at depth 50 follows no scatter and returns without an
\* inner call, also in a world whose surfaces always scatter.
C2_ColorTerminates ==
    /\ [](/\ depth <= 50
          /\ tests <= 51
          /\ Len(frames) = depth
          /\ pc \in {"Ray_color", "scan"} => tests <= depth + 1)
    /\ [][depth = 50 => depth' <= 50]_vars
    /\ <>ColorOver

\* a path between two surfaces that always scatter, cut at depth 50 after
\* its 51st intersection test
C2_Witness ==
    /\ pc = "Ray_color_ret"
    /\ Len(world) = 2
    /\ \A i \in 1 .. 2 : world[i].material.kind \in {"Lambertian", "Dielectric"}
    /\ depth = 50
    /\ Len(frames) = 50
    /\ tests = 51
    /\ col = V(0, 0, 0)

(***************************************************************************)
(* Claims about Dielectric::scatter (checked under SpecDielectric)         *)
(***************************************************************************)
\* two directions that differ by a positive factor at most
SameDirection(a, b) == unit_vector(a) = unit_vector(b)

\* the cosine between the incoming ray and the normal, either side
CosIn == FDiv(F(Abs(dot(ray.dir, hit_record.normal)[1])),
              FMul(F(dot(ray.dir, hit_record.normal)[2]), len(ray.dir)))

\* C8 as stated: with ref_index = 1.0, whatever the ray, the normal and the
\* value drawn, scatter takes the refract branch and the scattered ray has
\* the direction of the incoming one.
C8_IndexOneAlwaysRefracts ==
    (pc = "Dielectric_scatter_ret" /\ mat.ref_index = F(1)) =>
        /\ scattered.branch = "refract"
        /\ SameDirection(scattered.scattered.dir, ray.dir)

\* what holds with ref_index = 1.0: the ray is reflected when it grazes the
\* surface or when the value drawn is below (1 - cos)^5, and goes on, as a
\* unit vector, otherwise
IndexOneBranches ==
    (pc = "Dielectric_scatter_ret" /\ mat.ref_index = F(1)) =>
        /\ scattered.branch = "reflect" <=>
               \/ CosIn = F(0)
               \/ FLt(rng, Powi5(FSub(F(1), CosIn)))
        /\ scattered.branch = "refract" =>
               scattered.scattered.dir = unit_vector(ray.dir)
        /\ scattered.branch = "reflect" =>
               scattered.scattered.dir = reflect(ray.dir, hit_record.normal)

(***************************************************************************)
(* Claims about the fold of main (checked under SpecFold)                  *)
(***************************************************************************)
Black(img) == \A p \in PixelIndex : img[p] = <<0, 0, 0>>

AllWhite(img) == \A p \in PixelIndex : img[p] = <<255, 255, 255>>

Reversed(images) ==
    [i \in 1 .. Len(images) |-> images[Len(images) + 1 - i]]

\* C9 as stated: the fold of two all-black images is all black, and the
\* fold of an all-white and an all-black image, in either order, has 127
\* or 128 in every channel.
C9_FoldBlackAndMidGray ==
    (pc = "saved" /\ Len(results) = 2) =>
        /\ (Black(results[1]) /\ Black(results[2])) => Black(image)
        /\ (\/ AllWhite(results[1]) /\ Black(results[2])
            \/ Black(results[1]) /\ AllWhite(results[2])) =>
               \A p \in PixelIndex, c \in 1 .. 3 : image[p][c] \in {127, 128}

\* what holds of the two cases: black and black give black, black then
\* white gives 127, white then black gives 63
FoldOfTwo ==
    (pc = "saved" /\ Len(results) = 2) =>
        /\ (Black(results[1]) /\ Black(results[2])) => Black(image)
        /\ (Black(results[1]) /\ AllWhite(results[2])) =>
               \A p \in PixelIndex : image[p] = <<127, 127, 127>>
        /\ (AllWhite(results[1]) /\ Black(results[2])) =>
               \A p \in PixelIndex : image[p] = <<63, 63, 63>>

\* C10: the fold depends on the order and on the number of the partial
\* images.  Two images that differ by 4 or more in some channel of some
\* pixel give another final image when they are exchanged; one image with
\* a channel of 2 or more gives another final image when it is sent twice.
C10_FoldOrderDependent ==
    pc = "saved" =>
        /\ image = fold_from(blank, results, 1)
        /\ (/\ Len(results) = 2
            /\ \E p \in PixelIndex, c \in 1 .. 3 :
                   Abs(results[1][p][c] - results[2][p][c]) >= 4) =>
               fold_from(blank, Reversed(results), 1) # image
        /\ (/\ Len(results) = 1
            /\ \E p \in PixelIndex, c \in 1 .. 3 : results[1][p][c] >= 2) =>
               fold_from(blank, <<results[1], results[1]>>, 1) # image

\* two partial images whose fold is not the fold of the two exchanged
C10_Witness ==
    /\ pc = "saved"
    /\ Len(results) = 2
    /\ AllWhite(results[1])
    /\ Black(results[2])
    /\ image = [p \in PixelIndex |-> <<63, 63, 63>>]
    /\ fold_from(blank, Reversed(results), 1) =
           [p \in PixelIndex |-> <<127, 127, 127>>]


(***************************************************************************)
(* Claims about Camera::get_ray (checked under SpecCamera)                 *)
(***************************************************************************)
\* the cameras of the end-to-end scenario, one for every focus distance and
\* shutter
CentreCamera(fd, sh) ==
    Camera_new(V(0, 0, 0), V(0, 0, -1), CameraUp, F(90), F(1), F(0), fd,
               sh[1], sh[2])

AtCentre == pc = "Camera_get_ray_ret" /\ st = <<Frac(1, 2), Frac(1, 2)>>

\* C11 as stated: for the camera at (0,0,0) looking at (0,0,-1) with up
\* (0,1,0), vfov 90, aspect 1 and aperture 0, get_ray(0.5, 0.5) returns a
\* ray with origin (0,0,0) and direction (0,0,-1)
C11_CentreRayIsMinusZ ==
    \A fd \in FocusDists, sh \in Shutters :
        (AtCentre /\ camera = CentreCamera(fd, sh)) =>
            /\ ray.orig = V(0, 0, 0)
            /\ ray.dir = V(0, 0, -1)

\* C11 amended: for that camera get_ray(0.5, 0.5) returns a ray with origin
\* (0,0,0) and direction (0,0,-focus_dist), the direction is not
\* normalised; it is (0,0,-1) when the focus distance is 1
C11_CentreRayIsMinusFocusDist ==
    \A fd \in FocusDists, sh \in Shutters :
        (AtCentre /\ camera = CentreCamera(fd, sh)) =>
            /\ ray.orig = V(0, 0, 0)
            /\ ray.dir = <<F(0), F(0), FNeg(fd)>>
            /\ (fd = F(1) => ray.dir = V(0, 0, -1))

C11_Witness ==
    /\ AtCentre
    /\ camera = CentreCamera(F(2), <<F(0), F(1)>>)
    /\ ray.dir = V(0, 0, -2)

\* the point of the image plane get_ray(s, t) aims at
Camera_target(self, s, t) ==
    VAdd(VAdd(self.llc, VScale(s, self.horizontal)),
         VScale(t, self.vertical))

\* the lens offset along the camera's u and v
Camera_lens_offset(self, p) ==
    VAdd(VScale(FMul(self.lens_radius, p[1]), self.uvw[1]),
         VScale(FMul(self.lens_radius, p[2]), self.uvw[2]))

\* C12: for every aperture, lens sample and (s,t) the ray get_ray returns
\* passes through the image-plane target, origin + direction = llc +
\* s*horizontal + t*vertical, and its origin is lookfrom displaced by the
\* lens offset along the camera's u and v
C12_RayThroughTarget ==
    pc = "Camera_get_ray_ret" =>
        /\ VAdd(ray.orig, ray.dir) = Camera_target(camera, st[1], st[2])
        /\ ray.orig = VAdd(camera.origin, Camera_lens_offset(camera, lens))


(***************************************************************************)
(* Claims about the empty list, HitableList::bounding_box and the sort of  *)
(* BvhNode::new (checked under SpecHit and SpecBuild)                      *)
(***************************************************************************)
\* C13: HitableList::hit on a list with no children returns no-hit (false)
\* for every ray and window and does not fail
C13_EmptyListNoHit ==
    world = <<>> =>
        /\ pc # "panic"
        /\ pc # "HitableList_hit" => (out # None /\ ~out.hit)

\* C14: BvhNode::new on an empty list ends with a defined outcome: the
\* recursion does not go on until the stack is used up
C14_EmptyBuildTerminates == world = <<>> => pc # "stack_overflow"

\* whether every child of the list reports a box
AllBoxed(list) ==
    \A i \in 1 .. Len(list) :
        Child_bounding_box(list[i], t_min, t_max, NoBoxYet).ok

RECURSIVE UnionBox(_, _)
\* the componentwise min of mins and max of maxes of the children i..
UnionBox(list, i) ==
    LET b == Child_bounding_box(list[i], t_min, t_max, NoBoxYet).box
    IN  IF i = Len(list) THEN b ELSE surrounding_box(b, UnionBox(list, i + 1))

\* C15: HitableList::bounding_box returns true with the union of the
\* children's boxes when the list is non-empty and every child reports a
\* box, and false exactly when the list is empty or a child reports no box
C15_ListBoxIsUnion ==
    pc = "HitableList_bounding_box_ret" =>
        /\ out_box.ok <=> (Len(world) > 0 /\ AllBoxed(world))
        /\ out_box.ok => out_box.box = UnionBox(world, 1)

\* the minimum of a child's box on the axis, as an integer ordering key
BoxMin(h, a) == Hitable_bounding_box(h, F(0), F(0)).box.min[a]

\* C20: after the sort step of BvhNode::new the list is ordered by the
\* chosen axis's bounding-box minimum: the sequence of minima is monotone
C20_SortedByAxisMin ==
    pc = "BvhNode_new_sorted" =>
        \/ \A i \in 1 .. Len(nodes) - 1 :
               FLe(BoxMin(nodes[i], axis), BoxMin(nodes[i + 1], axis))
        \/ \A i \in 1 .. Len(nodes) - 1 :
               FLe(BoxMin(nodes[i + 1], axis), BoxMin(nodes[i], axis))


(***************************************************************************)
(* Claims about the choice of BvhNode::hit (checked under SpecHit)         *)
(***************************************************************************)
\* what the children of the root answer to the ray and window of the call
RootLeft == Hitable_hit(bvh.left, ray, t_min, t_max, HitRecord_new)

RootRight == Hitable_hit(bvh.right, ray, t_min, t_max, HitRecord_new)

\* the call of BvhNode::hit has returned, the ray passed the root's box and
\* both children reported a hit
BothHit ==
    /\ pc = "done"
    /\ Aabb_hit(bvh.bounding_box, ray, t_min, t_max)
    /\ RootLeft.hit
    /\ RootRight.hit

\* the record and the material BvhNode::hit returned are the child's
Returned(child, answer) ==
    /\ bvh_out.hit
    /\ bvh_out.rec = answer.rec
    /\ bvh_out.mat = Hitable_get_material(child)

Nearer(child, answer, other) ==
    FLt(answer.rec.t, other.rec.t) => Returned(child, answer)

\* C19 as stated: when the ray passes the node's box and both children
\* report a hit with equal t, the left child's record and material are
\* returned; when the hits differ, the child with the smaller t
C19_TieFavoursLeft ==
    BothHit =>
        /\ RootLeft.rec.t = RootRight.rec.t => Returned(bvh.left, RootLeft)
        /\ Nearer(bvh.left, RootLeft, RootRight)
        /\ Nearer(bvh.right, RootRight, RootLeft)

\* C19 amended: on equal t the right child's record and material are
\* returned; when the hits differ, the child with the smaller t
C19_TieFavoursRight ==
    BothHit =>
        /\ RootLeft.rec.t = RootRight.rec.t => Returned(bvh.right, RootRight)
        /\ Nearer(bvh.left, RootLeft, RootRight)
        /\ Nearer(bvh.right, RootRight, RootLeft)

\* a tie between children of different materials
C19_Witness ==
    /\ BothHit
    /\ RootLeft.rec.t = RootRight.rec.t
    /\ Hitable_get_material(bvh.left) # Hitable_get_material(bvh.right)
    /\ Returned(bvh.right, RootRight)

(***************************************************************************)
(* Claims about the threads of main (checked under SpecMain and            *)
(* SpecMainFair)                                                           *)
(***************************************************************************)
AnyPanicked == \E i \in 1 .. Len(threads) : threads[i].at = "panicked"

\* C16: if a worker thread panics the whole render fails: main fails at
\* that worker's join, before the fold runs and before image.save, and no
\* image is written from the other workers' results
C16_WorkerPanicFailsRender ==
    /\ [](AnyPanicked =>
             pc \notin {"fold", "saved"} /\ acc = None /\ image = None)
    /\ [](pc = "main_panicked" => threads[joined].at = "panicked")
    /\ (AnyPanicked ~> pc = "main_panicked")

\* main has failed at the second join with the first worker's result
\* received and never written
C16_Witness ==
    /\ pc = "main_panicked"
    /\ joined = 2
    /\ threads[2].at = "panicked"
    /\ Len(results) = 1
    /\ image = None

\* C17: the first write to the image buffer comes after all CORE_CNT
\* workers are joined and all their results received; a worker's step
\* writes neither the image buffer nor the results of main
C17_ImageAfterAllJoined ==
    /\ [][image' # image =>
             /\ joined = CORE_CNT
             /\ Len(results) = CORE_CNT
             /\ \A i \in 1 .. CORE_CNT : threads[i].at = "exited"]_vars
    /\ [][threads' # threads =>
             image' = image /\ results' = results /\ acc' = acc]_vars

C17_Witness ==
    /\ pc = "saved"
    /\ image # None
    /\ joined = CORE_CNT
    /\ Len(results) = CORE_CNT

(***************************************************************************)
(* Claims about the value of Ray::color (checked under SpecColor)          *)
(***************************************************************************)
\* world.hit has returned to the call of Ray::color under way
WorldHitReturned == pc = "scan" /\ idx > Len(world)

\* the call under way returns c without an inner call
ReturnsAlone(c) ==
    /\ pc' = "Ray_color_ret"
    /\ col' = c
    /\ depth' = depth
    /\ frames' = frames

\* the call under way makes the inner call for the scatter sc and keeps
\* emitted e for its own return
CallsInner(e, sc) ==
    /\ pc' = "Ray_color"
    /\ ray' = sc.scattered
    /\ depth' = depth + 1
    /\ frames' = Append(frames, [emitted |-> e,
                                 attenuation |-> sc.attenuation])

\* the reference of the call under way, h being what world.hit returned
ReferenceStep(h) ==
    IF ~h.hit THEN ReturnsAlone(IF ray.debug THEN V(1, 1, 1) ELSE V(0, 0, 0))
    ELSE IF depth >= 50
    THEN ReturnsAlone(Material_emitted(h.mat, h.rec.u, h.rec.v, h.rec.p))
    ELSE \E rnd \in RandomInSphere, g \in ColorRngs :
             IF Material_scatter(h.mat, ray, h.rec, Vec3_new,
                                 Ray_new(ray.debug), rnd, g).ok
             THEN CallsInner(
                      Material_emitted(h.mat, h.rec.u, h.rec.v, h.rec.p),
                      Material_scatter(h.mat, ray, h.rec, Vec3_new,
                                       Ray_new(ray.debug), rnd, g))
             ELSE ReturnsAlone(
                      Material_emitted(h.mat, h.rec.u, h.rec.v, h.rec.p))

\* the inner call has returned col to the call that left the frame f
ReferenceReturn(f) ==
    /\ col' = VAdd(f.emitted, VMul(f.attenuation, col))
    /\ depth' = depth - 1
    /\ frames' = SubSeq(frames, 1, Len(frames) - 1)

\* C18: Ray::color(world, depth) follows the reference: the window of
\* world.hit is (0.001, MAX); on a hit with depth < 50 and a material that
\* scatters it returns emitted + attenuation * color(scattered, depth + 1);
\* on a hit otherwise emitted alone, whatever the scatter would be at depth
\* 50; on a miss (1,1,1) for a debug ray and (0,0,0) otherwise
C18_ColorFollowsReference ==
    /\ [](pc = "scan" => t_min = Frac(1, 1000) /\ t_max = F64_MAX)
    /\ [][WorldHitReturned =>
              ReferenceStep(HitableList_hit_result(locals))]_vars
    /\ [][(pc = "Ray_color_ret" /\ frames # <<>>) =>
              ReferenceReturn(frames[Len(frames)])]_vars

\* a debug ray reflected by a grey mirror into the background: the
\* outermost call has returned half of white
C18_Witness ==
    /\ pc = "Ray_color_ret"
    /\ frames = <<>>
    /\ tests = 2
    /\ world = <<ColorB(Metal_new(Grey, F(0)))>>
    /\ col = <<Frac(1, 2), Frac(1, 2), Frac(1, 2)>>

(***************************************************************************)
(* Claims about the tree BvhNode::new builds (checked under SpecBuild and  *)
(* SpecHit)                                                                *)
(***************************************************************************)
RECURSIVE Leaves(_)
\* the primitives at the leaves of a tree
Leaves(h) ==
    IF h.kind = "BvhNode" THEN Leaves(h.left) \cup Leaves(h.right) ELSE {h}

Range(s) == {s[i] : i \in 1 .. Len(s)}

\* C21: for every list of n >= 1 primitives BvhNode::new ends and the
\* leaves of the tree are the primitives of the list: with 1 primitive both
\* children are that primitive, with 2 each child is one of them, with
\* n >= 3 the subtrees are built from the two parts of the list split at
\* n / 2, each part non-empty and shorter than n
C21_TreeKeepsPrimitives ==
    /\ (pc = "BvhNode_new_sorted" /\ Len(nodes) >= 1) =>
           /\ Range(nodes) = Range(world)
           /\ Len(nodes) = Len(world)
           /\ BvhNode_new_from(nodes, t_min, t_max) # {}
    /\ pc = "BvhNode_new_ret" =>
           /\ Leaves(bvh) = Range(world)
           /\ Len(nodes) = 1 => bvh.left = nodes[1] /\ bvh.right = nodes[1]
           /\ Len(nodes) = 2 => bvh.left = nodes[1] /\ bvh.right = nodes[2]
           /\ Len(nodes) >= 3 =>
                  LET at == Len(nodes) \div 2
                  IN  /\ at >= 1
                      /\ at < Len(nodes)
                      /\ Leaves(bvh.left) =
                             Range(SubSeq(nodes, at + 1, Len(nodes)))
                      /\ Leaves(bvh.right) = Range(SubSeq(nodes, 1, at))

\* a tree of three different primitives
C21_Witness ==
    /\ pc = "BvhNode_new_ret"
    /\ Len(world) = 3
    /\ Cardinality(Leaves(bvh)) = 3
    /\ bvh.left.kind = "BvhNode"

\* box is the componentwise min of the mins and max of the maxes of a, b
IsUnionOf(box, a, b) ==
    \A i \in Axes :
        /\ box.min[i] = FMin(a.min[i], b.min[i])
        /\ box.max[i] = FMax(a.max[i], b.max[i])

BoxWithin(inner, outer) ==
    \A i \in Axes :
        FLe(outer.min[i], inner.min[i]) /\ FLe(inner.max[i], outer.max[i])

RECURSIVE NodeBoxesFit(_, _, _)
\* every node of the tree stores the union of its children's boxes, which
\* holds the box of every primitive below it
NodeBoxesFit(h, t0, t1) ==
    h.kind = "BvhNode" =>
        /\ IsUnionOf(h.bounding_box, Hitable_bounding_box(h.left, t0, t1).box,
                     Hitable_bounding_box(h.right, t0, t1).box)
        /\ \A p \in Leaves(h) :
               BoxWithin(Hitable_bounding_box(p, t0, t1).box, h.bounding_box)
        /\ NodeBoxesFit(h.left, t0, t1)
        /\ NodeBoxesFit(h.right, t0, t1)

\* C22: in a tree built by BvhNode::new(nodes, t0, t1) every node's stored
\* box is the surrounding box of its children's boxes and holds the box of
\* every primitive of its subtree, and a later hit call leaves it as it is
C22_NodeBoxesAreUnions ==
    /\ [](pc \in {"BvhNode_hit", "done"} => NodeBoxesFit(bvh, F(0), F(1)))
    /\ [][(pc \in {"BvhNode_hit", "done"}) => UNCHANGED bvh]_vars

\* a tree of two levels has answered a ray with a hit
C22_Witness ==
    /\ pc = "done"
    /\ bvh.left.kind = "BvhNode"
    /\ bvh.left.left # bvh.left.right
    /\ bvh_out.hit

(***************************************************************************)
(* Claims about the rectangles, Metal, the worker's pixel coordinates and  *)
(* lists of mixed primitives (checked under SpecParts)                     *)
(***************************************************************************)
\* the in-plane coordinates of the point p on the rectangle's plane are
\* inside the rectangle's extent
InExtent(rect, p) ==
    LET ax == RectSlice_axes(rect.kind)
    IN  /\ FLe(rect.u0, p[ax[2]]) /\ FLe(p[ax[2]], rect.u1)
        /\ FLe(rect.v0, p[ax[3]]) /\ FLe(p[ax[3]], rect.v1)

\* C23: RectSliceXy/Xz/Yz::hit reports a hit only when the plane parameter
\* t is strictly inside the window, t_min < t < t_max, and the in-plane
\* point is inside the extent; t equal to t_min or to t_max is rejected
C23_RectHitStrictlyInside ==
    (pc = "RectSlice_hit_ret" /\ out.hit) =>
        /\ FLt(t_min, out.rec.t)
        /\ FLt(out.rec.t, t_max)
        /\ InExtent(world[1], out.rec.p)

\* C24: after Metal::new(texture, fuzz), for any fuzz, the stored fuzz lies
\* in [0, 1]
C24_FuzzInUnitInterval ==
    pc = "Metal_new_ret" => FLe(F(0), mat.fuzz) /\ FLe(mat.fuzz, F(1))

\* C28: for every pixel (i, j) of the image and every pair of jitter values
\* in [0, 1), the u and v the worker passes to Camera::get_ray lie in [0, 1]
C28_PixelCoordinatesInUnitSquare ==
    (pc = "Camera_get_ray" /\ pixel # None) =>
        \A k \in 1 .. 2 : FLe(F(0), st[k]) /\ FLe(st[k], F(1))

\* C29: a ray scattered by Metal keeps the time tag of the incoming ray:
\* the scattered ray on which Ray::color recurses has the time of the ray
\* that hit the Metal
C29_MetalKeepsTime ==
    (pc = "Material_scatter_ret" /\ scattered.ok) =>
        scattered.scattered.time = ray.time

\* a record none of whose fields is a value that a hit writes
Unwritten ==
    [u |-> <<NaN, NaN, NaN, NaN>>, v |-> <<NaN, NaN, NaN, NaN>>, t |-> NaN,
     p |-> <<NaN, NaN, NaN>>, normal |-> <<NaN, NaN, NaN>>,
     material |-> Blank_new]

\* the child, hit on its own with a record it has to fill, writes the t, p,
\* normal, u and v of rec
WrittenBy(child, r, tmin, tmax, rec) ==
    LET h == Hitable_hit(child, r, tmin, tmax, Unwritten)
    IN  /\ h.hit
        /\ h.rec.t = rec.t
        /\ h.rec.p = rec.p
        /\ h.rec.normal = rec.normal
        /\ h.rec.u = rec.u
        /\ h.rec.v = rec.v

\* C30: whenever HitableList::hit returns a hit, every field of the output
\* record (t, p, normal, u, v) was written by the one child that produced
\* the returned t; none is left over from an earlier child's hit in the
\* scan or from the record's initial values
C30_RecordFromOneChild ==
    (pc = "HitableList_hit_ret" /\ out.hit) =>
        \E i \in 1 .. Len(world) :
            WrittenBy(world[i], ray, t_min, t_max, out.rec)

(***************************************************************************)
(* Claims about the results main collects and folds (checked under         *)
(* SpecMain, SpecMainFair and SpecFold)                                    *)
(***************************************************************************)
\* the images of the sequence imgs are those the workers produced, one for
\* each worker
OneFromEach(imgs, workers) ==
    /\ Len(imgs) = Len(workers)
    /\ \E f \in [1 .. Len(imgs) -> 1 .. Len(workers)] :
           /\ \A k, l \in 1 .. Len(imgs) : f[k] = f[l] => k = l
           /\ \A k \in 1 .. Len(imgs) : imgs[k] = workers[f[k]].result

LoopEnded == pc \in {"fold", "saved"}

\* C25: while no worker has panicked, recv is called only when a result
\* that was sent is still unreceived, the join-then-recv loop ends, and
\* when it has ended the results vector holds exactly CORE_CNT images, one
\* produced by each worker
C25_LoopEndsWithOneResultEach ==
    /\ [](~AnyPanicked =>
              /\ pc = "recv" => chan # <<>>
              /\ LoopEnded =>
                     Len(results) = CORE_CNT /\ OneFromEach(results, threads))
    /\ (<>AnyPanicked) \/ <>LoopEnded

C25_Witness ==
    /\ pc = "fold"
    /\ ~AnyPanicked
    /\ Len(results) = CORE_CNT
    /\ results[1] # results[2]
    /\ chan = <<>>

\* the images the workers produced, in the order of the spawns
SpawnOrder == [k \in 1 .. Len(threads) |-> threads[k].result]

\* C26: the k-th element of the results vector is the image produced by
\* the k-th spawned worker, so that the final image is the fold of the
\* partial images in the order of the spawns, whatever the order in which
\* the workers finish
C26_ResultsInSpawnOrder ==
    /\ LoopEnded => \A k \in 1 .. Len(results) : results[k] = threads[k].result
    /\ pc = "saved" => image = fold_from(blank, SpawnOrder, 1)

\* C27: if every one of the n >= 1 workers produces the same image C, the
\* final folded image equals C in every channel of every pixel
C27_FoldOfEqualImages ==
    (pc = "saved" /\ \A k \in 1 .. Len(results) : results[k] = results[1]) =>
        image = results[1]

=============================================================================
